---------------------------- MODULE Spec2Model ----------------------------
(***************************************************************************)
(* A model of the generic linear-algebra library "bm" (go-better-math):    *)
(* fixed-size matrices Mat2/Mat3/Mat4, vectors and the scalar helpers they *)
(* call.  The library is a set of pure functions, so the state machine is  *)
(* one call: Init draws an element type T, a receiver and the arguments    *)
(* from bounded sets, and each action is one call of one operation, which  *)
(* records the operation's name, its return values and whether the Go      *)
(* run time panicked.                                                      *)
(*                                                                         *)
(* Element types are Go's fixed-width integers, with their wrap-around,    *)
(* truncating division and division-by-zero panic.  Matrices are indexed   *)
(* [row][col] from 0, as in the source.                                    *)
(***************************************************************************)
EXTENDS Integers, Sequences, FiniteSets, TLC

VARIABLES
    T,          \* the element type the generic code is instantiated with
    recvType,   \* the type of the receiver: "Mat2", "Mat3", "Mat4", "Vec2",
                \* "Vec3", "Vec4", or "func" for a call of a free function
    recv,       \* the receiver of the call
    args,       \* the arguments of the call
    op,         \* the operation called ("none" before the call)
    ret,        \* the values the call returned
    panicked,   \* TRUE when the call ended in a run-time panic
    logged      \* the lines written with log.Println

vars == <<T, recvType, recv, args, op, ret, panicked, logged>>

(***************************************************************************)
(* Bounds of the model.                                                    *)
(***************************************************************************)
\* Matrix and vector elements are drawn from -MaxVal..MaxVal (0..MaxVal for
\* an unsigned element type).
MaxVal == 2

(***************************************************************************)
(* The Numeric constraint and Go's integer arithmetic.                     *)
(***************************************************************************)
\* The integer instances of Numeric the model covers.
IntTypes == {"int8", "int16", "uint8"}

Bits(t) == IF t = "int16" THEN 16 ELSE 8

Signed(t) == t \in {"int8", "int16"}

MinOf(t) == IF Signed(t) THEN -(2 ^ (Bits(t) - 1)) ELSE 0

MaxOf(t) == IF Signed(t) THEN 2 ^ (Bits(t) - 1) - 1 ELSE 2 ^ Bits(t) - 1

\* The value of type t that the mathematical integer x wraps to.
Wrap(t, x) ==
    IF MinOf(t) <= x /\ x <= MaxOf(t) THEN x
    ELSE ((x - MinOf(t)) % (2 ^ Bits(t))) + MinOf(t)

\* The float32 nearest to the integer x, ties to the even significand: a
\* float32 has a 24-bit significand, so from 2^24 on only the multiples of
\* a power of two are values.  For |x| < 2^30.
RoundFloat32(x) ==
    LET a == IF x < 0 THEN -x ELSE x IN
    IF a < 2 ^ 24 THEN x
    ELSE LET k == CHOOSE e \in 1 .. 6 : 2 ^ (23 + e) <= a /\ a < 2 ^ (24 + e)
             u == 2 ^ k
             q == a \div u
             r == a % u
             up == 2 * r > u \/ (2 * r = u /\ q % 2 = 1)
             m == IF up THEN (q + 1) * u ELSE q * u
         IN  IF x < 0 THEN -m ELSE m

\* The result x of an arithmetic operation as a value of the element type:
\* wrapped for an integer type, rounded for float32 (each operation rounds
\* by itself; no fused multiply-add).
Result(t, x) == IF t = "float32" THEN RoundFloat32(x) ELSE Wrap(t, x)

Add(t, a, b) == Result(t, a + b)

Sub(t, a, b) == Result(t, a - b)

Mul(t, a, b) == Result(t, a * b)

Neg(t, a) == Result(t, -a)

AbsInt(x) == IF x < 0 THEN -x ELSE x

\* Go's integer quotient truncates toward zero; the caller guards b # 0
\* (an integer division by zero is a run-time panic).
Quo(t, a, b) ==
    LET q == AbsInt(a) \div AbsInt(b)
    IN  Wrap(t, IF (a < 0) = (b < 0) THEN q ELSE -q)

\* A constant of the generic code converted to the element type.
Const(t, k) == Wrap(t, k)

(***************************************************************************)
(* Matrices.                                                               *)
(***************************************************************************)
Idx(N) == 0 .. (N - 1)

\* The composite literal {{...}, {...}, ...} as a value indexed from 0.
Lit(rows) ==
    [i \in Idx(Len(rows)) |-> [j \in Idx(Len(rows[i + 1])) |-> rows[i + 1][j + 1]]]

SizeOf(m) == Cardinality(DOMAIN m)

\* The zero value Mat2[T]{}, Mat3[T]{}, Mat4[T]{}.
ZeroMat(N) == [i \in Idx(N) |-> [j \in Idx(N) |-> 0]]

IdentityMat2(t) ==
    Lit(<< <<Const(t, 1), Const(t, 0)>>,
           <<Const(t, 0), Const(t, 1)>> >>)

\* IdentityMat3 with a one off the diagonal.
IdentityMat3OffDiagonal(t) ==
    Lit(<< <<Const(t, 1), Const(t, 0), Const(t, 0)>>,
           <<Const(t, 0), Const(t, 1), Const(t, 1)>>,
           <<Const(t, 0), Const(t, 0), Const(t, 1)>> >>)

IdentityMat3(t) ==
    Lit(<< <<Const(t, 1), Const(t, 0), Const(t, 0)>>,
           <<Const(t, 0), Const(t, 1), Const(t, 0)>>,
           <<Const(t, 0), Const(t, 0), Const(t, 1)>> >>)

IdentityMat4(t) ==
    Lit(<< <<Const(t, 1), Const(t, 0), Const(t, 0), Const(t, 0)>>,
           <<Const(t, 0), Const(t, 1), Const(t, 0), Const(t, 0)>>,
           <<Const(t, 0), Const(t, 0), Const(t, 1), Const(t, 0)>>,
           <<Const(t, 0), Const(t, 0), Const(t, 0), Const(t, 1)>> >>)

IdentityMat(t, N) ==
    IF N = 2 THEN IdentityMat2(t) ELSE IF N = 3 THEN IdentityMat3(t) ELSE IdentityMat4(t)


(***************************************************************************)
(* Mat2.                                                                   *)
(***************************************************************************)
Mat2Mul(t, m, n) ==
    Lit(<< << Add(t, Mul(t, m[0][0], n[0][0]), Mul(t, m[0][1], n[1][0])),
              Add(t, Mul(t, m[0][0], n[0][1]), Mul(t, m[0][1], n[1][1])) >>,
           << Add(t, Mul(t, m[1][0], n[0][0]), Mul(t, m[1][1], n[1][0])),
              Add(t, Mul(t, m[1][0], n[0][1]), Mul(t, m[1][1], n[1][1])) >> >>)

Mat2Transpose(m) ==
    Lit(<< <<m[0][0], m[1][0]>>,
           <<m[0][1], m[1][1]>> >>)

Mat2Determinant(t, m) ==
    Sub(t, Mul(t, m[0][0], m[1][1]), Mul(t, m[0][1], m[1][0]))

\* Abs(float32(det)) for an integer det: the conversion of an integer of at
\* most 16 bits to float32 is exact, and so is math.Abs.
AbsFloat32(x) == AbsInt(x)

\* x < 1e-10 for a float that holds a non-negative integer: no integer lies
\* in [1e-10, 1), so the comparison is that with 1.
BelowEpsilon(x) == x < 1

\* Returns <<inverse, success>>.
Mat2Inverse(t, m) ==
    LET det == Mat2Determinant(t, m) IN
    IF BelowEpsilon(AbsFloat32(det))
    THEN <<ZeroMat(2), FALSE>>
    ELSE LET invDet == Quo(t, Const(t, 1), det) IN
         << Lit(<< << Mul(t, m[1][1], invDet), Mul(t, Neg(t, m[0][1]), invDet) >>,
                   << Mul(t, Neg(t, m[1][0]), invDet), Mul(t, m[0][0], invDet) >> >>),
            TRUE >>

(***************************************************************************)
(* Mat3.                                                                   *)
(***************************************************************************)
\* a*b + c*d + e*f, evaluated left to right in the element type.
Dot3(t, a, b, c, d, e, f) ==
    Add(t, Add(t, Mul(t, a, b), Mul(t, c, d)), Mul(t, e, f))

\* Mat3Mul with a wrong column index in the middle cell.
Mat3MulIndexSlip(t, m, n) ==
    Lit(<< << Dot3(t, m[0][0], n[0][0], m[0][1], n[1][0], m[0][2], n[2][0]),
              Dot3(t, m[0][0], n[0][1], m[0][1], n[1][1], m[0][2], n[2][1]),
              Dot3(t, m[0][0], n[0][2], m[0][1], n[1][2], m[0][2], n[2][2]) >>,
           << Dot3(t, m[1][0], n[0][0], m[1][1], n[1][0], m[1][2], n[2][0]),
              Dot3(t, m[1][0], n[0][1], m[1][1], n[1][1], m[1][2], n[2][2]),
              Dot3(t, m[1][0], n[0][2], m[1][1], n[1][2], m[1][2], n[2][2]) >>,
           << Dot3(t, m[2][0], n[0][0], m[2][1], n[1][0], m[2][2], n[2][0]),
              Dot3(t, m[2][0], n[0][1], m[2][1], n[1][1], m[2][2], n[2][1]),
              Dot3(t, m[2][0], n[0][2], m[2][1], n[1][2], m[2][2], n[2][2]) >> >>)

Mat3Mul(t, m, n) ==
    Lit(<< << Dot3(t, m[0][0], n[0][0], m[0][1], n[1][0], m[0][2], n[2][0]),
              Dot3(t, m[0][0], n[0][1], m[0][1], n[1][1], m[0][2], n[2][1]),
              Dot3(t, m[0][0], n[0][2], m[0][1], n[1][2], m[0][2], n[2][2]) >>,
           << Dot3(t, m[1][0], n[0][0], m[1][1], n[1][0], m[1][2], n[2][0]),
              Dot3(t, m[1][0], n[0][1], m[1][1], n[1][1], m[1][2], n[2][1]),
              Dot3(t, m[1][0], n[0][2], m[1][1], n[1][2], m[1][2], n[2][2]) >>,
           << Dot3(t, m[2][0], n[0][0], m[2][1], n[1][0], m[2][2], n[2][0]),
              Dot3(t, m[2][0], n[0][1], m[2][1], n[1][1], m[2][2], n[2][1]),
              Dot3(t, m[2][0], n[0][2], m[2][1], n[1][2], m[2][2], n[2][2]) >> >>)

Mat3Transpose(m) ==
    Lit(<< <<m[0][0], m[1][0], m[2][0]>>,
           <<m[0][1], m[1][1], m[2][1]>>,
           <<m[0][2], m[1][2], m[2][2]>> >>)

\* a*b - c*d in the element type.
Det2(t, a, b, c, d) == Sub(t, Mul(t, a, b), Mul(t, c, d))

\* Mat3Determinant with the middle term added instead of subtracted.
Mat3DeterminantSignSlip(t, m) ==
    Add(t,
        Add(t,
            Mul(t, m[0][0], Det2(t, m[1][1], m[2][2], m[1][2], m[2][1])),
            Mul(t, m[0][1], Det2(t, m[1][0], m[2][2], m[1][2], m[2][0]))),
        Mul(t, m[0][2], Det2(t, m[1][0], m[2][1], m[1][1], m[2][0])))

Mat3Determinant(t, m) ==
    Add(t,
        Sub(t,
            Mul(t, m[0][0], Det2(t, m[1][1], m[2][2], m[1][2], m[2][1])),
            Mul(t, m[0][1], Det2(t, m[1][0], m[2][2], m[1][2], m[2][0]))),
        Mul(t, m[0][2], Det2(t, m[1][0], m[2][1], m[1][1], m[2][0])))

\* Returns <<inverse, success>>.
Mat3Inverse(t, m) ==
    LET det == Mat3Determinant(t, m) IN
    IF det = 0
    THEN <<ZeroMat(3), FALSE>>
    ELSE LET invDet == Quo(t, Const(t, 1), det) IN
         << Lit(<< << Mul(t, Det2(t, m[1][1], m[2][2], m[1][2], m[2][1]), invDet),
                      Mul(t, Det2(t, m[0][2], m[2][1], m[0][1], m[2][2]), invDet),
                      Mul(t, Det2(t, m[0][1], m[1][2], m[0][2], m[1][1]), invDet) >>,
                   << Mul(t, Det2(t, m[1][2], m[2][0], m[1][0], m[2][2]), invDet),
                      Mul(t, Det2(t, m[0][0], m[2][2], m[0][2], m[2][0]), invDet),
                      Mul(t, Det2(t, m[0][2], m[1][0], m[0][0], m[1][2]), invDet) >>,
                   << Mul(t, Det2(t, m[1][0], m[2][1], m[1][1], m[2][0]), invDet),
                      Mul(t, Det2(t, m[0][1], m[2][0], m[0][0], m[2][1]), invDet),
                      Mul(t, Det2(t, m[0][0], m[1][1], m[0][1], m[1][0]), invDet) >> >>),
            TRUE >>

(***************************************************************************)
(* Mat4.                                                                   *)
(***************************************************************************)
\* The inner loop of Mul: sum += m[i][k] * n[k][j] for k = k .. 3.
RECURSIVE Mat4MulSum(_, _, _, _, _, _, _)
Mat4MulSum(t, m, n, i, j, k, sum) ==
    IF k = 4 THEN sum
    ELSE Mat4MulSum(t, m, n, i, j, k + 1, Add(t, sum, Mul(t, m[i][k], n[k][j])))

Mat4Mul(t, m, n) ==
    [i \in Idx(4) |-> [j \in Idx(4) |-> Mat4MulSum(t, m, n, i, j, 0, 0)]]

Mat4ScalarMul(t, m, scalar) ==
    Lit(<< << Mul(t, m[0][0], scalar), Mul(t, m[0][1], scalar),
              Mul(t, m[0][2], scalar), Mul(t, m[0][3], scalar) >>,
           << Mul(t, m[1][0], scalar), Mul(t, m[1][1], scalar),
              Mul(t, m[1][2], scalar), Mul(t, m[1][3], scalar) >>,
           << Mul(t, m[2][0], scalar), Mul(t, m[2][1], scalar),
              Mul(t, m[2][2], scalar), Mul(t, m[2][3], scalar) >>,
           << Mul(t, m[3][0], scalar), Mul(t, m[3][1], scalar),
              Mul(t, m[3][2], scalar), Mul(t, m[3][3], scalar) >> >>)

\* Mat4Transpose with a wrong cell in its last row.
Mat4TransposeRowSlip(m) ==
    Lit(<< <<m[0][0], m[1][0], m[2][0], m[3][0]>>,
           <<m[0][1], m[1][1], m[2][1], m[3][1]>>,
           <<m[0][2], m[1][2], m[2][2], m[3][2]>>,
           <<m[0][3], m[1][3], m[2][2], m[3][3]>> >>)

Mat4Transpose(m) ==
    Lit(<< <<m[0][0], m[1][0], m[2][0], m[3][0]>>,
           <<m[0][1], m[1][1], m[2][1], m[3][1]>>,
           <<m[0][2], m[1][2], m[2][2], m[3][2]>>,
           <<m[0][3], m[1][3], m[2][3], m[3][3]>> >>)

\* MinorCols skipping the column whose index is i: "if j == i" for
\* "if j == col".
RECURSIVE MinorColsSkipsDiagonal(_, _, _, _, _)
MinorColsSkipsDiagonal(m, i, col, j, st) ==
    IF st.panic \/ j = 4 THEN st
    ELSE IF j = i THEN MinorColsSkipsDiagonal(m, i, col, j + 1, st)
    ELSE IF st.r \notin Idx(3) \/ st.c \notin Idx(3)
         THEN [st EXCEPT !.panic = TRUE]
         ELSE MinorColsSkipsDiagonal(m, i, col, j + 1,
                        [st EXCEPT !.subMat[st.r][st.c] = m[i][j], !.c = st.c + 1,
                                   !.cells = Append(st.cells, <<st.r, st.c>>)])

\* The loops of Minor.  st holds the locals: subMat, r, c, and whether an
\* index into subMat ([3][3]T) was out of range, which is a run-time panic;
\* cells lists the cells <<r, c>> of subMat in the order they were written.
RECURSIVE MinorCols(_, _, _, _, _)
MinorCols(m, i, col, j, st) ==
    IF st.panic \/ j = 4 THEN st
    ELSE IF j = col THEN MinorCols(m, i, col, j + 1, st)
    ELSE IF st.r \notin Idx(3) \/ st.c \notin Idx(3)
         THEN [st EXCEPT !.panic = TRUE]
         ELSE MinorCols(m, i, col, j + 1,
                        [st EXCEPT !.subMat[st.r][st.c] = m[i][j], !.c = st.c + 1,
                                   !.cells = Append(st.cells, <<st.r, st.c>>)])

RECURSIVE MinorRows(_, _, _, _, _)
MinorRows(m, row, col, i, st) ==
    IF st.panic \/ i = 4 THEN st
    ELSE IF i = row THEN MinorRows(m, row, col, i + 1, st)
    ELSE LET s1 == MinorCols(m, i, col, 0, [st EXCEPT !.c = 0])
         IN  MinorRows(m, row, col, i + 1, [s1 EXCEPT !.r = s1.r + 1])

\* The 3x3 sub-matrix Minor builds, with the panic flag.
MinorSubMat(m, row, col) ==
    MinorRows(m, row, col, 0,
              [subMat |-> ZeroMat(3), r |-> 0, c |-> 0, panic |-> FALSE, cells |-> <<>>])

\* Mat4Minor with a sign slipped in the 3x3 determinant it delegates to.
Mat4MinorSignSlip(t, m, row, col) ==
    LET st == MinorSubMat(m, row, col) IN
    IF st.panic THEN [panic |-> TRUE, val |-> 0]
    ELSE [panic |-> FALSE, val |-> Mat3DeterminantSignSlip(t, st.subMat)]

\* Returns [panic, val].
Mat4Minor(t, m, row, col) ==
    LET st == MinorSubMat(m, row, col) IN
    IF st.panic THEN [panic |-> TRUE, val |-> 0]
    ELSE [panic |-> FALSE, val |-> Mat3Determinant(t, st.subMat)]

\* Go's remainder has the sign of the dividend.
Rem(a, b) == IF a >= 0 THEN a % b ELSE -((-a) % b)

\* Mat4Cofactor without the checkerboard sign.
Mat4CofactorUnsigned(t, m, row, col) == Mat4Minor(t, m, row, col)

\* Returns [panic, val].
Mat4Cofactor(t, m, row, col) ==
    LET minor == Mat4Minor(t, m, row, col) IN
    IF minor.panic THEN minor
    ELSE IF Rem(row + col, 2) = 0 THEN minor
    ELSE [minor EXCEPT !.val = Neg(t, minor.val)]

\* The loop of Determinant: a += m[0][i] * m.Cofactor(0, i) for i = i .. 3.
RECURSIVE Mat4DetLoop(_, _, _, _)
Mat4DetLoop(t, m, i, a) ==
    IF i = 4 THEN a
    ELSE Mat4DetLoop(t, m, i + 1, Add(t, a, Mul(t, m[0][i], Mat4Cofactor(t, m, 0, i).val)))

Mat4Determinant(t, m) == Mat4DetLoop(t, m, 0, 0)

\* Mat4Adjoint without the transposition: adjoint[i][j] = m.Cofactor(i, j).
Mat4AdjointUntransposed(t, m) ==
    [i \in Idx(4) |-> [j \in Idx(4) |-> Mat4Cofactor(t, m, i, j).val]]

\* adjoint[j][i] = m.Cofactor(i, j) for every i, j.
Mat4Adjoint(t, m) ==
    [j \in Idx(4) |-> [i \in Idx(4) |-> Mat4Cofactor(t, m, i, j).val]]

\* Mat4Inverse reporting success for a singular matrix.
Mat4InverseAlwaysOk(t, m) ==
    LET det == Mat4Determinant(t, m) IN
    IF det = 0
    THEN <<ZeroMat(4), TRUE>>
    ELSE LET invDet == Quo(t, Const(t, 1), det)
         IN  <<Mat4ScalarMul(t, Mat4Adjoint(t, m), invDet), TRUE>>

\* Returns <<inverse, success>>.
Mat4Inverse(t, m) ==
    LET det == Mat4Determinant(t, m) IN
    IF det = 0
    THEN <<ZeroMat(4), FALSE>>
    ELSE LET invDet == Quo(t, Const(t, 1), det)
         IN  <<Mat4ScalarMul(t, Mat4Adjoint(t, m), invDet), TRUE>>

(***************************************************************************)
(* The operations by size.                                                 *)
(***************************************************************************)
MatMul(t, m, n) ==
    IF SizeOf(m) = 2 THEN Mat2Mul(t, m, n)
    ELSE IF SizeOf(m) = 3 THEN Mat3Mul(t, m, n) ELSE Mat4Mul(t, m, n)

MatTranspose(m) ==
    IF SizeOf(m) = 2 THEN Mat2Transpose(m)
    ELSE IF SizeOf(m) = 3 THEN Mat3Transpose(m) ELSE Mat4Transpose(m)

MatDeterminant(t, m) ==
    IF SizeOf(m) = 2 THEN Mat2Determinant(t, m)
    ELSE IF SizeOf(m) = 3 THEN Mat3Determinant(t, m) ELSE Mat4Determinant(t, m)

MatInverse(t, m) ==
    IF SizeOf(m) = 2 THEN Mat2Inverse(t, m)
    ELSE IF SizeOf(m) = 3 THEN Mat3Inverse(t, m) ELSE Mat4Inverse(t, m)

(***************************************************************************)
(* The inputs.                                                             *)
(***************************************************************************)
\* The element types the matrix operations are checked with: a signed type
\* wide enough that no operation on the inputs below overflows, and an
\* unsigned one, where a negation wraps.
MatTypes == {"int16", "uint8"}

Sizes == {2, 3, 4}

Vals(t) == IF Signed(t) THEN (-MaxVal) .. MaxVal ELSE 0 .. MaxVal

\* The matrices of the documentation's and the specification's examples,
\* with the zero and the identity matrix.
BaseMats(N) ==
    IF N = 2 THEN
        { Lit(<< <<1, 2>>, <<3, 4>> >>),
          Lit(<< <<1, 2>>, <<2, 4>> >>),
          Lit(<< <<5, 6>>, <<7, 8>> >>) }
    ELSE IF N = 3 THEN
        { ZeroMat(3),
          Lit(<< <<1, 0, 0>>, <<0, 1, 0>>, <<0, 0, 1>> >>),
          Lit(<< <<1, 2, 3>>, <<4, 5, 6>>, <<7, 8, 9>> >>),
          Lit(<< <<1, 2, 3>>, <<0, 1, 4>>, <<5, 6, 0>> >>) }
    ELSE
        { ZeroMat(4),
          Lit(<< <<1, 0, 0, 0>>, <<0, 1, 0, 0>>, <<0, 0, 1, 0>>, <<0, 0, 0, 1>> >>),
          Lit(<< <<1, 2, 3, 4>>, <<5, 6, 7, 8>>, <<9, 10, 11, 12>>, <<13, 14, 15, 16>> >>),
          Lit(<< <<2, 1, 0, 3>>, <<1, 1, 2, 0>>, <<0, 3, 1, 1>>, <<1, 0, 2, 2>> >>) }

SetCell(m, i, j, v) == [m EXCEPT ![i][j] = v]

\* A base matrix with one cell and then one diagonal cell overwritten.
Perturbed(t, N) ==
    { SetCell(SetCell(b, c[1], c[2], c[3]), d[1], d[1], d[2]) :
        b \in BaseMats(N),
        c \in Idx(N) \X Idx(N) \X Vals(t),
        d \in Idx(N) \X Vals(t) }

\* The receivers: every 2x2 matrix over Vals(t) and the 2x2 examples; for
\* sizes 3 and 4 the base matrices with a cell and a diagonal cell overwritten.
Mats(t, N) ==
    IF N = 2 THEN [Idx(2) -> [Idx(2) -> Vals(t)]] \cup BaseMats(2)
    ELSE Perturbed(t, N)

MatType(N) == IF N = 2 THEN "Mat2" ELSE IF N = 3 THEN "Mat3" ELSE "Mat4"

MatTypeNames == {MatType(N) : N \in Sizes}

SwapRows(m, i, j) == [m EXCEPT ![i] = m[j], ![j] = m[i]]

(***************************************************************************)
(* The calls: determinant, inverse and transpose.                          *)
(***************************************************************************)
Init ==
    /\ T \in MatTypes
    /\ \E N \in Sizes :
          /\ recvType = MatType(N)
          /\ recv \in Mats(T, N)
    /\ args = <<>>
    /\ op = "none"
    /\ ret = <<>>
    /\ panicked = FALSE
    /\ logged = <<>>

\* d := m.Determinant()
Determinant ==
    /\ op = "none"
    /\ recvType \in MatTypeNames
    /\ op' = "Determinant"
    /\ ret' = <<MatDeterminant(T, recv)>>
    /\ UNCHANGED <<logged, T, recvType, recv, args, panicked>>

\* The row-swap property test: d := m.Determinant(); m[i], m[j] = m[j], m[i];
\* e := m.Determinant().
DeterminantRowSwap ==
    /\ op = "none"
    /\ recvType \in MatTypeNames
    /\ \E i, j \in DOMAIN recv :
        /\ i < j
        /\ args' = <<i, j>>
        /\ ret' = <<MatDeterminant(T, recv), MatDeterminant(T, SwapRows(recv, i, j))>>
    /\ op' = "DeterminantRowSwap"
    /\ UNCHANGED <<logged, T, recvType, recv, panicked>>

\* inv, ok := m.Inverse()
Inverse ==
    /\ op = "none"
    /\ recvType \in MatTypeNames
    /\ op' = "Inverse"
    /\ ret' = MatInverse(T, recv)
    /\ UNCHANGED <<logged, T, recvType, recv, args, panicked>>

\* t := m.Transpose()
Transpose ==
    /\ op = "none"
    /\ recvType \in MatTypeNames
    /\ op' = "Transpose"
    /\ ret' = <<MatTranspose(recv)>>
    /\ UNCHANGED <<logged, T, recvType, recv, args, panicked>>

\* The second call of m.Transpose().Transpose(): the receiver is the first
\* call's result, and args keeps the original m.
TransposeAgain ==
    /\ op = "Transpose"
    /\ op' = "Transpose.Transpose"
    /\ args' = <<recv>>
    /\ recv' = ret[1]
    /\ ret' = <<MatTranspose(ret[1])>>
    /\ UNCHANGED <<logged, T, recvType, panicked>>

Next ==
    \/ Determinant
    \/ DeterminantRowSwap
    \/ Inverse
    \/ Transpose
    \/ TransposeAgain

Spec == Init /\ [][Next]_vars

(***************************************************************************)
(* The mathematical determinant: the Leibniz sum over the permutations.    *)
(***************************************************************************)
Perms ==
    [N \in Sizes |-> {p \in [Idx(N) -> Idx(N)] : \A a, b \in Idx(N) : a # b => p[a] # p[b]}]

Inversions(p) ==
    Cardinality({ab \in (DOMAIN p) \X (DOMAIN p) : ab[1] < ab[2] /\ p[ab[1]] > p[ab[2]]})

Sgn(p) == IF Inversions(p) % 2 = 0 THEN 1 ELSE -1

\* The permutations of each size with their signs.
SignedPerms == [N \in Sizes |-> {<<p, Sgn(p)>> : p \in Perms[N]}]

RECURSIVE PermProduct(_, _, _)
PermProduct(m, p, i) ==
    IF i \notin DOMAIN m THEN 1 ELSE m[i][p[i]] * PermProduct(m, p, i + 1)

RECURSIVE LeibnizSum(_, _)
LeibnizSum(m, ps) ==
    IF ps = {} THEN 0
    ELSE LET q == CHOOSE q \in ps : TRUE
         IN  q[2] * PermProduct(m, q[1], 0) + LeibnizSum(m, ps \ {q})

Leibniz(m) == LeibnizSum(m, SignedPerms[SizeOf(m)])

HasZeroRow(m) == \E i \in DOMAIN m : \A j \in DOMAIN m : m[i][j] = 0

M16 == Lit(<< <<1, 2, 3, 4>>, <<5, 6, 7, 8>>, <<9, 10, 11, 12>>, <<13, 14, 15, 16>> >>)

(***************************************************************************)
(* Claims about determinant, inverse and transpose, checked under Spec.    *)
(***************************************************************************)
\* C1: whenever the determinant of M is nonzero, M.Inverse() returns
\* (Minv, true) and M.Mul(Minv) is the identity matrix, for integer element
\* types exactly.  The integer quotient 1 / det is 0 unless det is 1 or -1,
\* so this fails, e.g. for Mat2[int]{{1,2},{3,4}}.
C1_InverseTimesSelfIsIdentity ==
    (op = "Inverse" /\ MatDeterminant(T, recv) # 0)
        => /\ ret[2] = TRUE
           /\ MatMul(T, recv, ret[1]) = IdentityMat(T, SizeOf(recv))

\* C2: when Determinant() is 0 (in particular with an all-zero row, and for
\* the 4x4 matrix with entries 1..16) Inverse() returns the all-zero matrix
\* and false; it returns true only when the determinant is nonzero.
C2_SingularInverseIsZeroFalse ==
    op = "Inverse" =>
        /\ MatDeterminant(T, recv) = 0 => ret = <<ZeroMat(SizeOf(recv)), FALSE>>
        /\ HasZeroRow(recv) => ret = <<ZeroMat(SizeOf(recv)), FALSE>>
        /\ recv = M16 => ret = <<ZeroMat(4), FALSE>>
        /\ ret[2] = TRUE => MatDeterminant(T, recv) # 0

\* C2's case: the inverse of the singular matrix with entries 1..16.
C2_Witness ==
    /\ op = "Inverse"
    /\ recv = M16
    /\ ret = <<ZeroMat(4), FALSE>>

\* C3: Determinant() is the mathematical determinant (the Leibniz sum over
\* the permutations) in the element type, exactly so for the signed type;
\* for size 4 it is the sum of m[0][i] * Cofactor(0, i), and it is 0 for the
\* matrix with entries 1..16.
C3_DeterminantIsLeibniz ==
    op = "Determinant" =>
        /\ ret[1] = Wrap(T, Leibniz(recv))
        /\ Signed(T) => ret[1] = Leibniz(recv)
        /\ SizeOf(recv) = 4 =>
              ret[1] = Wrap(T, recv[0][0] * Mat4Cofactor(T, recv, 0, 0).val
                             + recv[0][1] * Mat4Cofactor(T, recv, 0, 1).val
                             + recv[0][2] * Mat4Cofactor(T, recv, 0, 2).val
                             + recv[0][3] * Mat4Cofactor(T, recv, 0, 3).val)
        /\ recv = M16 => ret[1] = 0

\* C3's case: a 4x4 determinant that is not 0.
C3_Witness ==
    /\ op = "Determinant"
    /\ T = "int16"
    /\ recv = Lit(<< <<2, 1, 0, 3>>, <<1, 1, 2, 0>>, <<0, 3, 1, 1>>, <<1, 0, 2, 2>> >>)
    /\ ret[1] = Leibniz(recv)
    /\ ret[1] # 0

\* C4: exchanging two distinct rows negates the determinant.
C4_RowSwapNegatesDeterminant ==
    op = "DeterminantRowSwap" => ret[2] = Neg(T, ret[1])

\* C4's case: two rows of a 4x4 matrix with a nonzero determinant exchanged.
C4_Witness ==
    /\ op = "DeterminantRowSwap"
    /\ SizeOf(recv) = 4
    /\ args = <<1, 3>>
    /\ ret[1] # 0
    /\ ret[2] = -ret[1]

\* C7: M.Transpose()[i][j] = M[j][i] for all i, j, and M.Transpose().Transpose()
\* is M.
C7_TransposeInvolution ==
    /\ op = "Transpose" =>
          \A i, j \in DOMAIN recv : ret[1][i][j] = recv[j][i]
    /\ op = "Transpose.Transpose" =>
          /\ ret[1] = args[1]
          /\ \A i, j \in DOMAIN recv : recv[i][j] = args[1][j][i]

\* C7's case: a 4x4 matrix that is not symmetric, transposed twice.
C7_Witness ==
    /\ op = "Transpose.Transpose"
    /\ SizeOf(recv) = 4
    /\ recv # args[1]
    /\ ret[1] = args[1]

(***************************************************************************)
(* The calls of Mul.                                                       *)
(***************************************************************************)
\* A base matrix with one cell overwritten.
OnePerturbed(t, N) ==
    { SetCell(b, c[1], c[2], c[3]) :
        b \in BaseMats(N), c \in Idx(N) \X Idx(N) \X Vals(t) }

\* A base matrix with one diagonal cell overwritten.
DiagPerturbed(t, N) ==
    { SetCell(b, d[1], d[1], d[2]) : b \in BaseMats(N), d \in Idx(N) \X Vals(t) }

\* The second operand of the documentation's 3x3 product.
MulExample3 == Lit(<< <<9, 8, 7>>, <<6, 5, 4>>, <<3, 2, 1>> >>)

MulReceivers(t, N) == IF N = 2 THEN Mats(t, 2) ELSE OnePerturbed(t, N)

MulArgs(t, N) ==
    BaseMats(N) \cup DiagPerturbed(t, N) \cup (IF N = 3 THEN {MulExample3} ELSE {})

\* The operand pairs: every receiver of Spec with the identity on either
\* side, and the products of a perturbed receiver with a perturbed argument.
MulPairs(t, N) ==
    (Mats(t, N) \X {IdentityMat(t, N)})
        \cup ({IdentityMat(t, N)} \X Mats(t, N))
        \cup (MulReceivers(t, N) \X MulArgs(t, N))

InitMul ==
    /\ T \in MatTypes
    /\ \E N \in Sizes : \E pair \in MulPairs(T, N) :
          /\ recvType = MatType(N)
          /\ recv = pair[1]
          /\ args = <<pair[2]>>
    /\ op = "none"
    /\ ret = <<>>
    /\ panicked = FALSE
    /\ logged = <<>>

\* p := m.Mul(n)
CallMul ==
    /\ op = "none"
    /\ recvType \in MatTypeNames
    /\ op' = "Mul"
    /\ ret' = <<MatMul(T, recv, args[1])>>
    /\ UNCHANGED <<logged, T, recvType, recv, args, panicked>>

NextMul == CallMul

SpecMul == InitMul /\ [][NextMul]_vars

\* The sum over k of m[i][k] * n[k][j].
RECURSIVE RowByColumn(_, _, _, _, _)
RowByColumn(m, n, i, j, k) ==
    IF k \notin DOMAIN m THEN 0 ELSE m[i][k] * n[k][j] + RowByColumn(m, n, i, j, k + 1)

\* C5: M.Mul(Identity) = M and Identity.Mul(M) = M for sizes 2, 3 and 4.
C5_IdentityIsNeutral ==
    op = "Mul" =>
        /\ args[1] = IdentityMat(T, SizeOf(recv)) => ret[1] = recv
        /\ recv = IdentityMat(T, SizeOf(recv)) => ret[1] = args[1]

\* C5's case: the identity multiplied by a matrix that is not the identity.
C5_Witness ==
    /\ op = "Mul"
    /\ recv = IdentityMat(T, 4)
    /\ args[1] = M16
    /\ ret[1] = M16

\* C6: m.Mul(n)[i][j] is the sum over k of m[i][k] * n[k][j], in the
\* element type, for the unrolled products of sizes 2 and 3 and the looped
\* product of size 4.
C6_MulIsRowByColumn ==
    op = "Mul" =>
        \A i, j \in DOMAIN recv :
            ret[1][i][j] = Wrap(T, RowByColumn(recv, args[1], i, j, 0))

\* C6's case: the 3x3 product of the documentation.
C6_Witness ==
    /\ op = "Mul"
    /\ recv = Lit(<< <<1, 2, 3>>, <<4, 5, 6>>, <<7, 8, 9>> >>)
    /\ args[1] = MulExample3
    /\ ret[1] = Lit(<< <<30, 24, 18>>, <<84, 69, 54>>, <<138, 114, 90>> >>)

(***************************************************************************)
(* Vec3 and the scalar helpers it calls.                                   *)
(***************************************************************************)
\* T(math.Sqrt(float64(x))) for an integer x >= 0: the square root with its
\* fraction discarded.
FloorSqrt(x) == CHOOSE r \in 0 .. 256 : r * r <= x /\ x < (r + 1) * (r + 1)

Sqrt(t, x) == IF x < 0 THEN Const(t, 0) ELSE Wrap(t, FloorSqrt(x))

NewVec3(x, y, z) == [X |-> x, Y |-> y, Z |-> z]

Vec3Dot(t, v, other) ==
    Add(t, Add(t, Mul(t, v.X, other.X), Mul(t, v.Y, other.Y)), Mul(t, v.Z, other.Z))

Vec3Mag(t, v) ==
    Sqrt(t, Add(t, Add(t, Mul(t, v.X, v.X), Mul(t, v.Y, v.Y)), Mul(t, v.Z, v.Z)))

\* Returns [panic, val]: an integer division by zero is a run-time panic.
Vec3Div(t, v, other) ==
    IF other.X = 0 \/ other.Y = 0 \/ other.Z = 0
    THEN [panic |-> TRUE, val |-> NewVec3(0, 0, 0)]
    ELSE [panic |-> FALSE,
          val |-> NewVec3(Quo(t, v.X, other.X), Quo(t, v.Y, other.Y), Quo(t, v.Z, other.Z))]

\* T(Acos(cosTheta)) for cosTheta in {-1, 0, 1}: acos is 3.14.., 1.57.., 0,
\* and the conversion to an integer type discards the fraction.
AcosTruncated(cosTheta) ==
    IF cosTheta = 1 THEN 0 ELSE IF cosTheta = 0 THEN 1 ELSE 3

\* Returns [panic, val]: dot / (magA * magB) is a division in T.
Vec3Angle(t, v, other) ==
    LET dot == Vec3Dot(t, v, other)
        magA == Vec3Mag(t, v)
        magB == Vec3Mag(t, other)
        den == Mul(t, magA, magB)
    IN  IF den = 0 THEN [panic |-> TRUE, val |-> 0]
        ELSE LET q == Quo(t, dot, den)
                 cosTheta == IF q > 1 THEN 1 ELSE IF q < -1 THEN -1 ELSE q
             IN  [panic |-> FALSE, val |-> Wrap(t, AcosTruncated(cosTheta))]

\* Returns [panic, val]: the element-wise quotient of two 2x2 matrices.
Mat2Div(t, m, n) ==
    IF \E i, j \in Idx(2) : n[i][j] = 0
    THEN [panic |-> TRUE, val |-> ZeroMat(2)]
    ELSE [panic |-> FALSE,
          val |-> Lit(<< <<Quo(t, m[0][0], n[0][0]), Quo(t, m[0][1], n[0][1])>>,
                         <<Quo(t, m[1][0], n[1][0]), Quo(t, m[1][1], n[1][1])>> >>)]

(***************************************************************************)
(* The calls with abnormal inputs: a zero divisor, a zero-magnitude vector,*)
(* a row or column index outside 0..3.                                     *)
(***************************************************************************)
Vecs3(t) == {NewVec3(x, y, z) : x \in Vals(t), y \in Vals(t), z \in Vals(t)}

\* The row and column arguments of Minor and Cofactor: 0..3 and one index
\* beyond on either side.
MinorIndexes == (-1) .. 4

InitAbnormal ==
    /\ T \in MatTypes
    /\ \/ /\ recvType = "Vec3"
          /\ recv \in Vecs3(T)
          /\ \E w \in Vecs3(T) : args = <<w>>
       \/ /\ recvType = "Mat4"
          /\ recv \in BaseMats(4)
          /\ \E row, col \in MinorIndexes : args = <<row, col>>
       \/ /\ recvType = "Mat2"
          /\ recv \in BaseMats(2)
          /\ \E n \in Mats(T, 2) : args = <<n>>
    /\ op = "none"
    /\ ret = <<>>
    /\ panicked = FALSE
    /\ logged = <<>>

\* The outcome [panic, val] of a call as the next state.
Returns(name, outcome) ==
    /\ op' = name
    /\ panicked' = outcome.panic
    /\ ret' = IF outcome.panic THEN <<>> ELSE <<outcome.val>>
    /\ UNCHANGED <<logged, T, recvType, recv, args>>

\* q := v.Div(w)
CallVec3Div ==
    /\ op = "none"
    /\ recvType = "Vec3"
    /\ Returns("Vec3.Div", Vec3Div(T, recv, args[1]))

\* a := v.Angle(w)
CallVec3Angle ==
    /\ op = "none"
    /\ recvType = "Vec3"
    /\ Returns("Vec3.Angle", Vec3Angle(T, recv, args[1]))

\* q := m.Div(n)
CallMat2Div ==
    /\ op = "none"
    /\ recvType = "Mat2"
    /\ Returns("Mat2.Div", Mat2Div(T, recv, args[1]))

\* x := m.Minor(row, col)
CallMinor ==
    /\ op = "none"
    /\ recvType = "Mat4"
    /\ Returns("Mat4.Minor", Mat4Minor(T, recv, args[1], args[2]))

\* x := m.Cofactor(row, col)
CallCofactor ==
    /\ op = "none"
    /\ recvType = "Mat4"
    /\ Returns("Mat4.Cofactor", Mat4Cofactor(T, recv, args[1], args[2]))

NextAbnormal ==
    \/ CallVec3Div
    \/ CallVec3Angle
    \/ CallMat2Div
    \/ CallMinor
    \/ CallCofactor

SpecAbnormal == InitAbnormal /\ [][NextAbnormal]_vars

\* C8: no operation aborts the process: a zero-magnitude vector passed to
\* Angle, a zero component in the divisor of a vector or matrix Div, and a
\* row or column index outside 0..3 passed to Minor or Cofactor all yield a
\* return value.  With an integer element type the divisions panic, and
\* Minor indexes its 3x3 array out of range.
C8_NoOperationPanics ==
    op # "none" => (panicked = FALSE /\ Len(ret) = 1)

(***************************************************************************)
(* Rotations.  The element type is an integer type or float64.  A float64  *)
(* is held as its sign and the decimal form of its magnitude; an angle of  *)
(* type float64 is held by its name.                                       *)
(***************************************************************************)
RotTypes == MatTypes \cup {"float64"}

Float(neg, abs) == [neg |-> neg, abs |-> abs]

\* -x for a float64; -0 compares equal to 0.
FloatNeg(x) == IF x.abs = "0" THEN x ELSE Float(~x.neg, x.abs)

\* The float64 angles, with math.Cos and math.Sin of each; the values for
\* Pi/4 are those the rotation tests expect.
FloatAngles == {"0", "Pi/4", "-Pi/4", "Pi/2"}

MathCos(angle) ==
    IF angle = "0" THEN Float(FALSE, "1")
    ELSE IF angle = "Pi/2" THEN Float(FALSE, "6.123233995736766e-17")
    ELSE Float(FALSE, "0.7071067811865476")

MathSin(angle) ==
    IF angle = "0" THEN Float(FALSE, "0")
    ELSE IF angle = "Pi/2" THEN Float(FALSE, "1")
    ELSE Float(angle = "-Pi/4", "0.7071067811865475")

\* T(math.Cos(float64(x))).  For an integer x other than 0 the cosine lies
\* strictly between -1 and 1 and the conversion to T discards it.
Cos(t, x) ==
    IF t = "float64" THEN MathCos(x)
    ELSE IF x = 0 THEN Const(t, 1) ELSE Const(t, 0)

\* T(math.Sin(float64(x))).  The sine of an integer lies strictly between
\* -1 and 1.
Sin(t, x) ==
    IF t = "float64" THEN MathSin(x) ELSE Const(t, 0)

\* The constants 0 and 1 of a composite literal, in the element type.
RotConst(t, k) ==
    IF t = "float64" THEN Float(FALSE, IF k = 0 THEN "0" ELSE "1") ELSE Const(t, k)

RotNeg(t, x) == IF t = "float64" THEN FloatNeg(x) ELSE Neg(t, x)

\* Mat2Rotate returning the receiver for a zero angle.
Mat2RotateKeepsReceiver(t, m, angle) ==
    LET cosA == Cos(t, angle)
        sinA == Sin(t, angle)
    IN  IF sinA = RotConst(t, 0) /\ cosA = RotConst(t, 1) THEN m
        ELSE Lit(<< <<cosA, RotNeg(t, sinA)>>,
                    <<sinA, cosA>> >>)

Mat2Rotate(t, m, angle) ==
    LET cosA == Cos(t, angle)
        sinA == Sin(t, angle)
    IN  Lit(<< <<cosA, RotNeg(t, sinA)>>,
               <<sinA, cosA>> >>)

\* The free functions RotateX, RotateY, RotateZ.
RotateX(t, angle) ==
    LET cosA == Cos(t, angle)
        sinA == Sin(t, angle)
    IN  Lit(<< <<RotConst(t, 1), RotConst(t, 0), RotConst(t, 0)>>,
               <<RotConst(t, 0), cosA, RotNeg(t, sinA)>>,
               <<RotConst(t, 0), sinA, cosA>> >>)

RotateY(t, angle) ==
    LET cosA == Cos(t, angle)
        sinA == Sin(t, angle)
    IN  Lit(<< <<cosA, RotConst(t, 0), sinA>>,
               <<RotConst(t, 0), RotConst(t, 1), RotConst(t, 0)>>,
               <<RotNeg(t, sinA), RotConst(t, 0), cosA>> >>)

RotateZ(t, angle) ==
    LET cosA == Cos(t, angle)
        sinA == Sin(t, angle)
    IN  Lit(<< <<cosA, RotNeg(t, sinA), RotConst(t, 0)>>,
               <<sinA, cosA, RotConst(t, 0)>>,
               <<RotConst(t, 0), RotConst(t, 0), RotConst(t, 1)>> >>)

\* The methods of Mat3.
Mat3RotateX(t, m, angle) ==
    LET cosA == Cos(t, angle)
        sinA == Sin(t, angle)
    IN  Lit(<< <<RotConst(t, 1), RotConst(t, 0), RotConst(t, 0)>>,
               <<RotConst(t, 0), cosA, RotNeg(t, sinA)>>,
               <<RotConst(t, 0), sinA, cosA>> >>)

Mat3RotateY(t, m, angle) ==
    LET cosA == Cos(t, angle)
        sinA == Sin(t, angle)
    IN  Lit(<< <<cosA, RotConst(t, 0), sinA>>,
               <<RotConst(t, 0), RotConst(t, 1), RotConst(t, 0)>>,
               <<RotNeg(t, sinA), RotConst(t, 0), cosA>> >>)

Mat3RotateZ(t, m, angle) ==
    LET cosA == Cos(t, angle)
        sinA == Sin(t, angle)
    IN  Lit(<< <<cosA, RotNeg(t, sinA), RotConst(t, 0)>>,
               <<sinA, cosA, RotConst(t, 0)>>,
               <<RotConst(t, 0), RotConst(t, 0), RotConst(t, 1)>> >>)

\* The methods of Mat4.
Mat4RotateX(t, m, angle) ==
    LET cosA == Cos(t, angle)
        sinA == Sin(t, angle)
    IN  Lit(<< <<RotConst(t, 1), RotConst(t, 0), RotConst(t, 0), RotConst(t, 0)>>,
               <<RotConst(t, 0), cosA, RotNeg(t, sinA), RotConst(t, 0)>>,
               <<RotConst(t, 0), sinA, cosA, RotConst(t, 0)>>,
               <<RotConst(t, 0), RotConst(t, 0), RotConst(t, 0), RotConst(t, 1)>> >>)

Mat4RotateY(t, m, angle) ==
    LET cosA == Cos(t, angle)
        sinA == Sin(t, angle)
    IN  Lit(<< <<cosA, RotConst(t, 0), sinA, RotConst(t, 0)>>,
               <<RotConst(t, 0), RotConst(t, 1), RotConst(t, 0), RotConst(t, 0)>>,
               <<RotNeg(t, sinA), RotConst(t, 0), cosA, RotConst(t, 0)>>,
               <<RotConst(t, 0), RotConst(t, 0), RotConst(t, 0), RotConst(t, 1)>> >>)

\* Mat4RotateZ with the sign of the sine on the wrong side.
Mat4RotateZSignSwapped(t, m, angle) ==
    LET cosA == Cos(t, angle)
        sinA == Sin(t, angle)
    IN  Lit(<< <<cosA, sinA, RotConst(t, 0), RotConst(t, 0)>>,
               <<RotNeg(t, sinA), cosA, RotConst(t, 0), RotConst(t, 0)>>,
               <<RotConst(t, 0), RotConst(t, 0), RotConst(t, 1), RotConst(t, 0)>>,
               <<RotConst(t, 0), RotConst(t, 0), RotConst(t, 0), RotConst(t, 1)>> >>)

Mat4RotateZ(t, m, angle) ==
    LET cosA == Cos(t, angle)
        sinA == Sin(t, angle)
    IN  Lit(<< <<cosA, RotNeg(t, sinA), RotConst(t, 0), RotConst(t, 0)>>,
               <<sinA, cosA, RotConst(t, 0), RotConst(t, 0)>>,
               <<RotConst(t, 0), RotConst(t, 0), RotConst(t, 1), RotConst(t, 0)>>,
               <<RotConst(t, 0), RotConst(t, 0), RotConst(t, 0), RotConst(t, 1)>> >>)

\* The rotation methods by receiver type and axis.
MatRotate(t, typ, axis, m, angle) ==
    IF typ = "Mat2" THEN Mat2Rotate(t, m, angle)
    ELSE IF typ = "Mat3" THEN
        (IF axis = "X" THEN Mat3RotateX(t, m, angle)
         ELSE IF axis = "Y" THEN Mat3RotateY(t, m, angle)
         ELSE Mat3RotateZ(t, m, angle))
    ELSE
        (IF axis = "X" THEN Mat4RotateX(t, m, angle)
         ELSE IF axis = "Y" THEN Mat4RotateY(t, m, angle)
         ELSE Mat4RotateZ(t, m, angle))

\* The free function of an axis.
FreeRotate(t, axis, angle) ==
    IF axis = "X" THEN RotateX(t, angle)
    ELSE IF axis = "Y" THEN RotateY(t, angle)
    ELSE RotateZ(t, angle)

(***************************************************************************)
(* The calls of the rotation methods.                                      *)
(***************************************************************************)
\* The identity matrix of an element type that may be float64.
RotIdentity(t, N) ==
    [i \in Idx(N) |-> [j \in Idx(N) |-> IF i = j THEN RotConst(t, 1) ELSE RotConst(t, 0)]]

\* The receivers of a rotation: for float64 the zero matrix, the identity
\* and the identity with a cell overwritten by a cosine or a negated sine.
RotReceivers(t, N) ==
    IF t = "float64" THEN
        { [i \in Idx(N) |-> [j \in Idx(N) |-> RotConst(t, 0)]], RotIdentity(t, N) }
            \cup { SetCell(RotIdentity(t, N), c[1], c[2], c[3]) :
                     c \in Idx(N) \X Idx(N) \X
                           ({MathCos(a) : a \in FloatAngles}
                                \cup {FloatNeg(MathSin(a)) : a \in FloatAngles}) }
    ELSE BaseMats(N) \cup DiagPerturbed(t, N)

RotAngles(t) == IF t = "float64" THEN FloatAngles ELSE Vals(t)

InitRot ==
    /\ T \in RotTypes
    /\ \E N \in Sizes :
          /\ recvType = MatType(N)
          /\ recv \in RotReceivers(T, N)
    /\ \E angle \in RotAngles(T) : args = <<angle>>
    /\ op = "none"
    /\ ret = <<>>
    /\ panicked = FALSE
    /\ logged = <<>>

\* r := m.Rotate(angle)
CallRotate ==
    /\ op = "none"
    /\ recvType = "Mat2"
    /\ op' = "Rotate"
    /\ ret' = <<Mat2Rotate(T, recv, args[1])>>
    /\ UNCHANGED <<logged, T, recvType, recv, args, panicked>>

\* r := m.RotateX(angle)
CallRotateX ==
    /\ op = "none"
    /\ recvType \in {"Mat3", "Mat4"}
    /\ op' = "RotateX"
    /\ ret' = <<IF recvType = "Mat3" THEN Mat3RotateX(T, recv, args[1])
                ELSE Mat4RotateX(T, recv, args[1])>>
    /\ UNCHANGED <<logged, T, recvType, recv, args, panicked>>

\* r := m.RotateY(angle)
CallRotateY ==
    /\ op = "none"
    /\ recvType \in {"Mat3", "Mat4"}
    /\ op' = "RotateY"
    /\ ret' = <<IF recvType = "Mat3" THEN Mat3RotateY(T, recv, args[1])
                ELSE Mat4RotateY(T, recv, args[1])>>
    /\ UNCHANGED <<logged, T, recvType, recv, args, panicked>>

\* r := m.RotateZ(angle)
CallRotateZ ==
    /\ op = "none"
    /\ recvType \in {"Mat3", "Mat4"}
    /\ op' = "RotateZ"
    /\ ret' = <<IF recvType = "Mat3" THEN Mat3RotateZ(T, recv, args[1])
                ELSE Mat4RotateZ(T, recv, args[1])>>
    /\ UNCHANGED <<logged, T, recvType, recv, args, panicked>>

NextRot ==
    \/ CallRotate
    \/ CallRotateX
    \/ CallRotateY
    \/ CallRotateZ

SpecRot == InitRot /\ [][NextRot]_vars

RotOps == {"Rotate", "RotateX", "RotateY", "RotateZ"}

\* The axis a rotation method is named after ("Z" for Mat2.Rotate).
AxisOf(name) == IF name = "RotateX" THEN "X" ELSE IF name = "RotateY" THEN "Y" ELSE "Z"

\* C9: the rotation methods ignore the receiver: any other receiver of the
\* same type gives the same result for the same angle, and for size 3 the
\* result is that of the free function RotateX, RotateY or RotateZ.
C9_RotationIgnoresReceiver ==
    op \in RotOps =>
        /\ \A m2 \in RotReceivers(T, SizeOf(recv)) :
              MatRotate(T, recvType, AxisOf(op), m2, args[1]) = ret[1]
        /\ recvType = "Mat3" => ret[1] = FreeRotate(T, AxisOf(op), args[1])

\* C9's case: a receiver that is neither the identity nor the result.
C9_Witness ==
    /\ op = "RotateY"
    /\ recvType = "Mat3"
    /\ T = "float64"
    /\ args = <<"Pi/4">>
    /\ recv # RotIdentity(T, 3)
    /\ recv # ret[1]
    /\ ret[1] = RotateY(T, "Pi/4")

\* The matrices C10 gives, from c = Cos(a) and s = Sin(a).
ExpectedRotation(t, typ, axis, c, s) ==
    LET o == RotConst(t, 0)
        l == RotConst(t, 1)
        n == RotNeg(t, s)
        r3 == IF axis = "X" THEN << <<l, o, o>>, <<o, c, n>>, <<o, s, c>> >>
              ELSE IF axis = "Y" THEN << <<c, o, s>>, <<o, l, o>>, <<n, o, c>> >>
              ELSE << <<c, n, o>>, <<s, c, o>>, <<o, o, l>> >>
    IN  IF typ = "Mat2" THEN Lit(<< <<c, n>>, <<s, c>> >>)
        ELSE IF typ = "Mat3" THEN Lit(r3)
        ELSE [i \in Idx(4) |-> [j \in Idx(4) |->
                 IF i < 3 /\ j < 3 THEN r3[i + 1][j + 1]
                 ELSE IF i = j THEN l ELSE o]]

\* C10: with c = Cos(a) and s = Sin(a), Rotate(a) is {{c,-s},{s,c}}, RotateX,
\* RotateY and RotateZ are the standard axis rotations, each Mat4 rotation
\* has the 3x3 rotation in its upper-left block and (0,0,0,1) as last row
\* and column, and for a = Pi/4 the entries are those the tests expect.
C10_RotationMatrices ==
    op \in RotOps =>
        /\ ret[1] = ExpectedRotation(T, recvType, AxisOf(op),
                                     Cos(T, args[1]), Sin(T, args[1]))
        /\ recvType = "Mat4" =>
              /\ \A i, j \in Idx(3) :
                    ret[1][i][j] = FreeRotate(T, AxisOf(op), args[1])[i][j]
              /\ \A k \in Idx(3) :
                    ret[1][3][k] = RotConst(T, 0) /\ ret[1][k][3] = RotConst(T, 0)
              /\ ret[1][3][3] = RotConst(T, 1)
        /\ (T = "float64" /\ args = <<"Pi/4">>) =>
              ret[1] = ExpectedRotation(T, recvType, AxisOf(op),
                                        Float(FALSE, "0.7071067811865476"),
                                        Float(FALSE, "0.7071067811865475"))

\* C10's case: TestMat4RotationZ, a rotation by Pi/4 of the identity.
C10_Witness ==
    /\ op = "RotateZ"
    /\ recvType = "Mat4"
    /\ T = "float64"
    /\ args = <<"Pi/4">>
    /\ recv = RotIdentity(T, 4)
    /\ ret[1][0][1] = Float(TRUE, "0.7071067811865475")
    /\ ret[1][1][0] = Float(FALSE, "0.7071067811865475")
    /\ ret[1][0][0] = Float(FALSE, "0.7071067811865476")

(***************************************************************************)
(* Minor and Cofactor of the matrix of the documentation, under            *)
(* SpecAbnormal.                                                           *)
(***************************************************************************)
\* The 3x3 sub-matrix of M16 left by deleting row 0 and column 0.
M16Sub00 == Lit(<< <<6, 7, 8>>, <<10, 11, 12>>, <<14, 15, 16>> >>)

MaxKnots == 3

At(s, i) == s[i + 1]

\* An index expression s[i] panics unless 0 <= i < len(s).
InRange(s, i) == 0 <= i /\ i < Len(s)

\* The scan with "<=" for "<": for i < n-1 && x[i+1] <= xVal { i++ }.
RECURSIVE SplineScanInclusive(_, _, _)
SplineScanInclusive(x, xVal, i) ==
    IF i < Len(x) - 1
    THEN IF ~InRange(x, i + 1) THEN [panic |-> TRUE, i |-> i]
         ELSE IF At(x, i + 1) <= xVal THEN SplineScanInclusive(x, xVal, i + 1)
         ELSE [panic |-> FALSE, i |-> i]
    ELSE [panic |-> FALSE, i |-> i]

\* for i < n-1 && x[i+1] < xVal { i++ }, from i on.  Returns [panic, i].
RECURSIVE SplineScan(_, _, _)
SplineScan(x, xVal, i) ==
    IF i < Len(x) - 1
    THEN IF ~InRange(x, i + 1) THEN [panic |-> TRUE, i |-> i]
         ELSE IF At(x, i + 1) < xVal THEN SplineScan(x, xVal, i + 1)
         ELSE [panic |-> FALSE, i |-> i]
    ELSE [panic |-> FALSE, i |-> i]

\* a[i] + b[i]*h + c[i]*h*h + d[i]*h*h*h
Cubic(a, b, c, d, i, h) ==
    At(a, i) + At(b, i) * h + At(c, i) * h * h + At(d, i) * h * h * h

\* CubicSpline without the test len(x) < 2.
CubicSplineNoMinLength(t, x, a, b, c, d, xVal) ==
    IF Len(x) # Len(a) \/ Len(x) # Len(b) \/ Len(x) # Len(c) \/ Len(x) # Len(d)
    THEN [panic |-> FALSE, val |-> Const(t, 0), log |-> <<"invalid input lengths">>]
    ELSE LET n == Len(x) IN
         IF ~InRange(x, 0) \/ ~InRange(x, n - 1)
         THEN [panic |-> TRUE, val |-> 0, log |-> <<>>]
         ELSE IF xVal < At(x, 0) \/ xVal > At(x, n - 1)
         THEN [panic |-> FALSE, val |-> Const(t, 0), log |-> <<"xVal out of bounds">>]
         ELSE LET scan == SplineScan(x, xVal, 0)
                  i == scan.i
              IN  IF scan.panic \/ ~InRange(x, i) \/ ~InRange(a, i) \/ ~InRange(b, i)
                        \/ ~InRange(c, i) \/ ~InRange(d, i)
                  THEN [panic |-> TRUE, val |-> 0, log |-> <<>>]
                  ELSE LET h == xVal - At(x, i)
                       IN  [panic |-> FALSE, val |-> Wrap(t, Cubic(a, b, c, d, i, h)),
                            log |-> <<>>]

\* Returns [panic, val, log].
CubicSpline(t, x, a, b, c, d, xVal) ==
    IF Len(x) # Len(a) \/ Len(x) # Len(b) \/ Len(x) # Len(c) \/ Len(x) # Len(d)
          \/ Len(x) < 2
    THEN [panic |-> FALSE, val |-> Const(t, 0), log |-> <<"invalid input lengths">>]
    ELSE LET n == Len(x) IN
         IF ~InRange(x, 0) \/ ~InRange(x, n - 1)
         THEN [panic |-> TRUE, val |-> 0, log |-> <<>>]
         ELSE IF xVal < At(x, 0) \/ xVal > At(x, n - 1)
         THEN [panic |-> FALSE, val |-> Const(t, 0), log |-> <<"xVal out of bounds">>]
         ELSE LET scan == SplineScan(x, xVal, 0)
                  i == scan.i
              IN  IF scan.panic \/ ~InRange(x, i) \/ ~InRange(a, i) \/ ~InRange(b, i)
                        \/ ~InRange(c, i) \/ ~InRange(d, i)
                  THEN [panic |-> TRUE, val |-> 0, log |-> <<>>]
                  ELSE LET h == xVal - At(x, i)
                       IN  [panic |-> FALSE, val |-> Wrap(t, Cubic(a, b, c, d, i, h)),
                            log |-> <<>>]

(***************************************************************************)
(* The calls of CubicSpline: knot slices of every length up to MaxKnots,   *)
(* sorted or not, coefficient slices of the same length or with one slice  *)
(* one element shorter or longer, and a query inside or outside the knots. *)
(***************************************************************************)
SplineType == "int16"

Knots(t) == UNION {[1 .. n -> Vals(t)] : n \in 0 .. MaxKnots}

SplineQueries(t) == (-MaxVal - 1) .. (MaxVal + 1)

\* The slice of length n whose element at the 0-based index i is p*(i+1) + q.
Ramp(t, n, p, q) == [i \in 1 .. n |-> Wrap(t, p * i + q)]

\* Coefficient slices for n knots: of equal length, or one slice of another
\* length.
SplineCoefficients(t, n) ==
    { [a |-> Ramp(t, n, 1, k), b |-> Ramp(t, n, k, 1),
       c |-> Ramp(t, n, 1, 0), d |-> Ramp(t, n, 0, k)] : k \in Vals(t) }
    \cup
    { [f \in {"a", "b", "c", "d"} |->
          IF f = w[1] THEN Ramp(t, n + w[2], 1, 0) ELSE Ramp(t, n, 1, 0)] :
        w \in {v \in {"a", "b", "c", "d"} \X {-1, 1} : n + v[2] >= 0} }

InitSpline ==
    /\ T = SplineType
    /\ recvType = "func"
    /\ recv = <<>>
    /\ \E x \in Knots(T), xVal \in SplineQueries(T) :
          \E co \in SplineCoefficients(T, Len(x)) :
              args = <<x, co.a, co.b, co.c, co.d, xVal>>
    /\ op = "none"
    /\ ret = <<>>
    /\ panicked = FALSE
    /\ logged = <<>>

\* y := CubicSpline(x, a, b, c, d, xVal)
CallCubicSpline ==
    /\ op = "none"
    /\ recvType = "func"
    /\ LET outcome == CubicSpline(T, args[1], args[2], args[3], args[4], args[5], args[6])
       IN  /\ op' = "CubicSpline"
           /\ panicked' = outcome.panic
           /\ ret' = IF outcome.panic THEN <<>> ELSE <<outcome.val>>
           /\ logged' = logged \o outcome.log
    /\ UNCHANGED <<T, recvType, recv, args>>

NextSpline == CallCubicSpline

SpecSpline == InitSpline /\ [][NextSpline]_vars

\* The slices of a call have one length, at least 2.
SplineLengthsValid(x, a, b, c, d) ==
    Len(x) = Len(a) /\ Len(x) = Len(b) /\ Len(x) = Len(c) /\ Len(x) = Len(d)
        /\ Len(x) >= 2

\* Valid input: equal lengths n >= 2, xs strictly increasing, xVal within
\* the knots.
SplineInputValid(x, a, b, c, d, xVal) ==
    /\ SplineLengthsValid(x, a, b, c, d)
    /\ \A j \in 0 .. Len(x) - 2 : At(x, j) < At(x, j + 1)
    /\ At(x, 0) <= xVal
    /\ xVal <= At(x, Len(x) - 1)

\* The greatest element of a non-empty set of integers.
MaxOfSet(S) == CHOOSE m \in S : \A k \in S : k <= m

\* C12 as stated: for valid input CubicSpline selects the rightmost index i
\* with xs[i] <= xVal and returns a[i] + b[i]*h + c[i]*h^2 + d[i]*h^3 with
\* h = xVal - xs[i], also when xVal is an interior knot or the last knot.
C12_RightmostKnotAtOrBelow ==
    (op = "CubicSpline"
        /\ SplineInputValid(args[1], args[2], args[3], args[4], args[5], args[6])) =>
        LET x == args[1]
            xVal == args[6]
            i == MaxOfSet({j \in 0 .. Len(x) - 1 : At(x, j) <= xVal})
        IN  ret = <<Cubic(args[2], args[3], args[4], args[5], i, xVal - At(x, i))>>

\* C12 amended: for valid input CubicSpline selects the rightmost index i
\* with xs[i] < xVal (i = 0 when xVal = xs[0]) and returns
\* a[i] + b[i]*h + c[i]*h^2 + d[i]*h^3 with h = xVal - xs[i]; when xVal is
\* the knot xs[k], k >= 1, that is the polynomial of the interval k-1 at
\* h = xs[k] - xs[k-1].
C12_RightmostKnotBelow ==
    (op = "CubicSpline"
        /\ SplineInputValid(args[1], args[2], args[3], args[4], args[5], args[6])) =>
        LET x == args[1]
            xVal == args[6]
            i == MaxOfSet({0} \cup {j \in 0 .. Len(x) - 1 : At(x, j) < xVal})
        IN  /\ panicked = FALSE
            /\ ret = <<Cubic(args[2], args[3], args[4], args[5], i, xVal - At(x, i))>>
            /\ \A k \in 1 .. Len(x) - 1 : xVal = At(x, k) => i = k - 1

\* C12's case: a query at the interior knot of three, answered from the
\* first interval.
C12_Witness ==
    /\ op = "CubicSpline"
    /\ SplineInputValid(args[1], args[2], args[3], args[4], args[5], args[6])
    /\ Len(args[1]) = 3
    /\ args[6] = At(args[1], 1)
    /\ ret = <<Cubic(args[2], args[3], args[4], args[5], 0, args[6] - At(args[1], 0))>>
    /\ ret # <<At(args[2], 1)>>

\* C13: CubicSpline logs and returns 0, without a panic, whenever the
\* lengths of xs, a, b, c, d are not all equal, or len(xs) < 2, or
\* xVal < xs[0], or xVal > xs[last]; in every other case the scan ends with
\* an index in 0 .. len(xs)-1 and no slice is indexed out of range.
C13_InvalidInputReturnsZero ==
    op = "CubicSpline" =>
        LET x == args[1]
            xVal == args[6]
        IN  IF ~SplineLengthsValid(x, args[2], args[3], args[4], args[5])
                  \/ xVal < At(x, 0) \/ xVal > At(x, Len(x) - 1)
            THEN panicked = FALSE /\ ret = <<0>> /\ Len(logged) = 1
            ELSE /\ panicked = FALSE
                 /\ Len(ret) = 1
                 /\ logged = <<>>
                 /\ SplineScan(x, xVal, 0).i \in 0 .. Len(x) - 1

\* C13's case: the coefficient slice c is one element short.
C13_Witness ==
    /\ op = "CubicSpline"
    /\ Len(args[1]) = 3
    /\ Len(args[4]) = 2
    /\ At(args[1], 0) <= args[6]
    /\ args[6] <= At(args[1], 2)
    /\ ret = <<0>>
    /\ logged = <<"invalid input lengths">>

(***************************************************************************)
(* Vectors of 2, 3 and 4 components: Mag, Norm, Cross, Neg and Clamp.      *)
(* Operations that divide return [panic, val].                             *)
(***************************************************************************)
NewVec2(x, y) == [X |-> x, Y |-> y]

NewVec4(x, y, z, w) == [X |-> x, Y |-> y, Z |-> z, W |-> w]

Vec2Mag(t, v) == Sqrt(t, Add(t, Mul(t, v.X, v.X), Mul(t, v.Y, v.Y)))

Vec4Mag(t, v) ==
    Sqrt(t, Add(t, Add(t, Add(t, Mul(t, v.X, v.X), Mul(t, v.Y, v.Y)),
                       Mul(t, v.Z, v.Z)), Mul(t, v.W, v.W)))

\* The composite literal {X: v.X / mag, ...}; a division by an integer zero
\* is a run-time panic.
Vec2Over(t, v, mag) ==
    IF mag = 0 THEN [panic |-> TRUE, val |-> NewVec2(0, 0)]
    ELSE [panic |-> FALSE, val |-> NewVec2(Quo(t, v.X, mag), Quo(t, v.Y, mag))]

Vec3Over(t, v, mag) ==
    IF mag = 0 THEN [panic |-> TRUE, val |-> NewVec3(0, 0, 0)]
    ELSE [panic |-> FALSE,
          val |-> NewVec3(Quo(t, v.X, mag), Quo(t, v.Y, mag), Quo(t, v.Z, mag))]

Vec4Over(t, v, mag) ==
    IF mag = 0 THEN [panic |-> TRUE, val |-> NewVec4(0, 0, 0, 0)]
    ELSE [panic |-> FALSE,
          val |-> NewVec4(Quo(t, v.X, mag), Quo(t, v.Y, mag),
                          Quo(t, v.Z, mag), Quo(t, v.W, mag))]

Vec2Norm(t, v) ==
    LET mag == Vec2Mag(t, v) IN
    IF mag = 0 THEN [panic |-> FALSE, val |-> NewVec2(0, 0)]
    ELSE Vec2Over(t, v, mag)

Vec3Norm(t, v) ==
    LET mag == Vec3Mag(t, v) IN
    IF mag = 0 THEN [panic |-> FALSE, val |-> NewVec3(0, 0, 0)]
    ELSE Vec3Over(t, v, mag)

\* Vec4Norm without the test mag == 0.
Vec4NormUnguarded(t, v) == Vec4Over(t, v, Vec4Mag(t, v))

Vec4Norm(t, v) ==
    LET mag == Vec4Mag(t, v) IN
    IF mag = 0 THEN [panic |-> FALSE, val |-> NewVec4(0, 0, 0, 0)]
    ELSE Vec4Over(t, v, mag)

\* Vec3Cross with the operands of the Y component exchanged.
Vec3CrossLeftHanded(t, v, other) ==
    NewVec3(Sub(t, Mul(t, v.Y, other.Z), Mul(t, v.Z, other.Y)),
            Sub(t, Mul(t, v.X, other.Z), Mul(t, v.Z, other.X)),
            Sub(t, Mul(t, v.X, other.Y), Mul(t, v.Y, other.X)))

Vec3Cross(t, v, other) ==
    NewVec3(Sub(t, Mul(t, v.Y, other.Z), Mul(t, v.Z, other.Y)),
            Sub(t, Mul(t, v.Z, other.X), Mul(t, v.X, other.Z)),
            Sub(t, Mul(t, v.X, other.Y), Mul(t, v.Y, other.X)))

Vec3Neg(t, v) == NewVec3(Neg(t, v.X), Neg(t, v.Y), Neg(t, v.Z))

\* Clamp with the second test on min.
ClampUpperSlip(x, min, max) ==
    IF x < min THEN min
    ELSE IF x > min THEN max
    ELSE x

Clamp(x, min, max) ==
    IF x < min THEN min
    ELSE IF x > max THEN max
    ELSE x

Vec2Clamp(v, min, max) == NewVec2(Clamp(v.X, min, max), Clamp(v.Y, min, max))

Vec3Clamp(v, min, max) ==
    NewVec3(Clamp(v.X, min, max), Clamp(v.Y, min, max), Clamp(v.Z, min, max))

Vec4Clamp(v, min, max) ==
    NewVec4(Clamp(v.X, min, max), Clamp(v.Y, min, max),
            Clamp(v.Z, min, max), Clamp(v.W, min, max))

\* The methods by receiver type.
VecMag(t, typ, v) ==
    IF typ = "Vec2" THEN Vec2Mag(t, v)
    ELSE IF typ = "Vec3" THEN Vec3Mag(t, v)
    ELSE Vec4Mag(t, v)

VecNorm(t, typ, v) ==
    IF typ = "Vec2" THEN Vec2Norm(t, v)
    ELSE IF typ = "Vec3" THEN Vec3Norm(t, v)
    ELSE Vec4Norm(t, v)

VecClamp(typ, v, min, max) ==
    IF typ = "Vec2" THEN Vec2Clamp(v, min, max)
    ELSE IF typ = "Vec3" THEN Vec3Clamp(v, min, max)
    ELSE Vec4Clamp(v, min, max)

(***************************************************************************)
(* The calls of the vector methods and of the function Clamp.  A call of   *)
(* Norm has no argument, a call of the method Clamp has two, a call of     *)
(* Cross has one, a call of the function Clamp has three.                  *)
(***************************************************************************)
VecTypeNames == {"Vec2", "Vec3", "Vec4"}

\* The components of the receivers of Norm: the small values and two
\* values whose squares wrap in the 8-bit types (16*16 = 256, 8*8 + 8*8 =
\* 128).
NormVals(t) == Vals(t) \cup {8, 16}

\* The vectors of a type with components in S.
VecsOver(typ, S) ==
    IF typ = "Vec2" THEN {NewVec2(x, y) : x \in S, y \in S}
    ELSE IF typ = "Vec3" THEN {NewVec3(x, y, z) : x \in S, y \in S, z \in S}
    ELSE {NewVec4(x, y, z, w) : x \in S, y \in S, z \in S, w \in S}

\* Components of the float32 vectors: integers, one of them large enough
\* for a product of two to need rounding (4097 * 4097 > 2^24).
Float32Vals == {0, 1, 3, 4097}

\* The float32 receivers of Cross: at most one large component.
Float32Receivers ==
    {v \in VecsOver("Vec3", Float32Vals) :
        Cardinality({f \in {"X", "Y", "Z"} : v[f] = 4097}) <= 1}

\* The arguments of the scalar Clamp: the small values and the two ends of
\* the element type.
ClampVals(t) == Vals(t) \cup {MinOf(t), MaxOf(t)}

ZeroVec(typ) ==
    IF typ = "Vec2" THEN NewVec2(0, 0)
    ELSE IF typ = "Vec3" THEN NewVec3(0, 0, 0)
    ELSE NewVec4(0, 0, 0, 0)

InitVec ==
    /\ \/ /\ T \in IntTypes
          /\ recvType \in VecTypeNames
          /\ recv \in VecsOver(recvType, NormVals(T))
          /\ args = <<>>
       \/ /\ T \in IntTypes
          /\ recvType \in VecTypeNames
          /\ recv \in VecsOver(recvType, Vals(T))
          /\ \E min \in Vals(T), max \in Vals(T) : args = <<min, max>>
       \/ /\ T \in IntTypes
          /\ recvType = "func"
          /\ recv = <<>>
          /\ \E x \in ClampVals(T), min \in ClampVals(T), max \in ClampVals(T) :
                args = <<x, min, max>>
       \/ /\ T \in IntTypes
          /\ recvType = "Vec3"
          /\ recv \in Vecs3(T)
          /\ \E w \in Vecs3(T) : args = <<w>>
       \/ /\ T = "float32"
          /\ recvType = "Vec3"
          /\ recv \in Float32Receivers
          /\ \E w \in VecsOver("Vec3", Float32Vals) : args = <<w>>
    /\ op = "none"
    /\ ret = <<>>
    /\ panicked = FALSE
    /\ logged = <<>>

\* n := v.Norm()
CallNorm ==
    /\ op = "none"
    /\ args = <<>>
    /\ Returns("Norm", VecNorm(T, recvType, recv))

\* m := v.Norm().Mag()
CallNormMag ==
    /\ op = "none"
    /\ args = <<>>
    /\ LET n == VecNorm(T, recvType, recv)
       IN  Returns("Norm.Mag", [panic |-> n.panic, val |-> VecMag(T, recvType, n.val)])

\* c := v.Clamp(min, max)
CallVecClamp ==
    /\ op = "none"
    /\ Len(args) = 2
    /\ Returns("Vec.Clamp", [panic |-> FALSE, val |-> VecClamp(recvType, recv, args[1], args[2])])

\* r := Clamp(x, min, max)
CallClamp ==
    /\ op = "none"
    /\ recvType = "func"
    /\ Len(args) = 3
    /\ Returns("Clamp", [panic |-> FALSE, val |-> Clamp(args[1], args[2], args[3])])

\* c := v.Cross(w)
CallCross ==
    /\ op = "none"
    /\ Len(args) = 1
    /\ Returns("Cross", [panic |-> FALSE, val |-> Vec3Cross(T, recv, args[1])])

\* c := w.Cross(v).Neg()
CallCrossReversedNeg ==
    /\ op = "none"
    /\ Len(args) = 1
    /\ Returns("Cross.Neg",
               [panic |-> FALSE, val |-> Vec3Neg(T, Vec3Cross(T, args[1], recv))])

\* d := v.Dot(v.Cross(w))
CallDotCross ==
    /\ op = "none"
    /\ Len(args) = 1
    /\ Returns("Dot.Cross",
               [panic |-> FALSE, val |-> Vec3Dot(T, recv, Vec3Cross(T, recv, args[1]))])

NextVec ==
    \/ CallNorm
    \/ CallNormMag
    \/ CallVecClamp
    \/ CallClamp
    \/ CallCross
    \/ CallCrossReversedNeg
    \/ CallDotCross

SpecVec == InitVec /\ [][NextVec]_vars

\* The sum of the squares of the components, not reduced to the element
\* type.
SumOfSquares(typ, v) ==
    v.X * v.X + v.Y * v.Y
        + (IF typ = "Vec2" THEN 0 ELSE v.Z * v.Z)
        + (IF typ = "Vec4" THEN v.W * v.W ELSE 0)

\* C14: for Vec2, Vec3 and Vec4, Norm() returns the all-zero vector whenever
\* Mag() is exactly 0, also when the sum of squares wraps to 0 or to a
\* negative value of the element type, and otherwise returns each component
\* divided by Mag(); Norm never divides by zero.
C14_NormOfZeroMagnitude ==
    op = "Norm" =>
        LET mag == VecMag(T, recvType, recv)
            sum == Wrap(T, SumOfSquares(recvType, recv))
        IN  /\ panicked = FALSE
            /\ Len(ret) = 1
            /\ mag = 0 => ret[1] = ZeroVec(recvType)
            /\ sum <= 0 => ret[1] = ZeroVec(recvType)
            /\ mag # 0 => \A f \in DOMAIN recv : ret[1][f] = Quo(T, recv[f], mag)

\* C14's case: a vector that is not zero whose sum of squares, 128, wraps
\* to -128 in int8.
C14_Witness ==
    /\ op = "Norm"
    /\ T = "int8"
    /\ recvType = "Vec4"
    /\ recv = NewVec4(8, 8, 0, 0)
    /\ Wrap(T, SumOfSquares(recvType, recv)) < 0
    /\ ret = <<NewVec4(0, 0, 0, 0)>>

\* C15: for every vector v that is not the zero vector, of any element type
\* including the integer types, v.Norm().Mag() is 1.  With an integer
\* element type the components of Norm() are truncated quotients, so this
\* fails, e.g. for Vec3[int]{1, 2, 2}, whose Norm() is the zero vector.
C15_NormHasUnitMagnitude ==
    (op = "Norm.Mag" /\ recv # ZeroVec(recvType)) => ret = <<1>>

\* C16: for every pair of vectors v, w, zero-magnitude vectors included,
\* v.Angle(w) returns a value in [0, pi].  Checked under SpecAbnormal: with
\* an integer element type the quotient dot / (magA * magB) is taken before
\* the clamp, and a zero magnitude makes it a division by zero.
C16_AngleWithinZeroAndPi ==
    op = "Vec3.Angle" =>
        /\ panicked = FALSE
        /\ Len(ret) = 1
        /\ 0 <= ret[1]
        /\ ret[1] <= 3

\* v.Y*w.Z - v.Z*w.Y and its two companions, not reduced to the element
\* type.
CrossExact(v, w) ==
    NewVec3(v.Y * w.Z - v.Z * w.Y, v.Z * w.X - v.X * w.Z, v.X * w.Y - v.Y * w.X)

\* The cross product the claim gives, in the element type: for an integer
\* type the exact value wrapped, for float32 each product and each
\* difference rounded.
CrossExpected(t, v, w) ==
    IF t = "float32"
    THEN NewVec3(RoundFloat32(RoundFloat32(v.Y * w.Z) - RoundFloat32(v.Z * w.Y)),
                 RoundFloat32(RoundFloat32(v.Z * w.X) - RoundFloat32(v.X * w.Z)),
                 RoundFloat32(RoundFloat32(v.X * w.Y) - RoundFloat32(v.Y * w.X)))
    ELSE [f \in {"X", "Y", "Z"} |-> Wrap(t, CrossExact(v, w)[f])]

\* C17 as stated: v.Cross(w) is (v.Y*w.Z - v.Z*w.Y, v.Z*w.X - v.X*w.Z,
\* v.X*w.Y - v.Y*w.X), so {1,0,0}.Cross({0,1,0}) is {0,0,1},
\* v.Cross(w) == w.Cross(v).Neg(), and v.Dot(v.Cross(w)) == 0, for all Vec3
\* v and w.
C17_CrossAndItsIdentities ==
    /\ op = "Cross" =>
          /\ ret = <<CrossExpected(T, recv, args[1])>>
          /\ (recv = NewVec3(1, 0, 0) /\ args = <<NewVec3(0, 1, 0)>>) =>
                ret = <<NewVec3(0, 0, 1)>>
    /\ op = "Cross.Neg" => ret = <<CrossExpected(T, recv, args[1])>>
    /\ op = "Dot.Cross" => ret = <<0>>

\* C17 amended: the same, with v.Dot(v.Cross(w)) == 0 for the integer
\* element types only; with float32 elements the products and sums of Dot
\* round, and the result is 0 only up to rounding.
C17_CrossAndItsIntegerIdentities ==
    /\ op = "Cross" =>
          /\ ret = <<CrossExpected(T, recv, args[1])>>
          /\ (recv = NewVec3(1, 0, 0) /\ args = <<NewVec3(0, 1, 0)>>) =>
                ret = <<NewVec3(0, 0, 1)>>
    /\ op = "Cross.Neg" => ret = <<CrossExpected(T, recv, args[1])>>
    /\ (op = "Dot.Cross" /\ T \in IntTypes) => ret = <<0>>

\* C17's case: v.Dot(v.Cross(w)) of two int16 vectors that are not
\* parallel.
C17_Witness ==
    /\ op = "Dot.Cross"
    /\ T = "int16"
    /\ recv = NewVec3(1, 2, -1)
    /\ args = <<NewVec3(2, -1, 1)>>
    /\ CrossExact(recv, args[1]) = NewVec3(1, -3, -5)
    /\ ret = <<0>>

\* The values a call of Clamp was given and returned, as triples
\* <<x, min, max>> -> r: one for the function, one per component for the
\* methods.
Clamped ==
    IF op = "Clamp" THEN {<<args[1], args[2], args[3], ret[1]>>}
    ELSE IF op = "Vec.Clamp"
    THEN {<<recv[f], args[1], args[2], ret[1][f]>> : f \in DOMAIN recv}
    ELSE {}

\* C19 as stated: for all x, min and max the result r of Clamp(x, min, max)
\* satisfies min <= r <= max, with r = min when x < min, r = max when
\* x > max and r = x otherwise; the same for each component of
\* Vec2/3/4.Clamp.
C19_ClampWithinRange ==
    \A c \in Clamped :
        LET x == c[1]
            min == c[2]
            max == c[3]
            r == c[4]
        IN  /\ min <= r /\ r <= max
            /\ x < min => r = min
            /\ x > max => r = max
            /\ (min <= x /\ x <= max) => r = x

\* C19 amended: the same for all x, min and max with min <= max.
C19_ClampWithinOrderedRange ==
    \A c \in Clamped :
        LET x == c[1]
            min == c[2]
            max == c[3]
            r == c[4]
        IN  min <= max =>
                /\ min <= r /\ r <= max
                /\ x < min => r = min
                /\ x > max => r = max
                /\ (min <= x /\ x <= max) => r = x

\* C19's case: a Vec3 with a component below, one inside and one above an
\* ordered range.
C19_Witness ==
    /\ op = "Vec.Clamp"
    /\ T = "int16"
    /\ recv = NewVec3(-2, 0, 2)
    /\ args = <<-1, 1>>
    /\ ret = <<NewVec3(-1, 0, 1)>>

(***************************************************************************)
(* The scalar functions Sqrt, Log, Log2, Log10 and Mod.                    *)
(*                                                                         *)
(* A value of a 64-bit type is beyond the integers the checker computes    *)
(* with; it is held as the sequence of its base-2^13 digits, least         *)
(* significant first, without leading zeros.                               *)
(***************************************************************************)
BigBase == 2 ^ 13

RECURSIVE Big(_)
Big(n) == IF n = 0 THEN <<>> ELSE <<n % BigBase>> \o Big(n \div BigBase)

\* The digits ds, each possibly BigBase or more, with the carries moved up.
RECURSIVE BigCarry(_, _)
BigCarry(ds, carry) ==
    IF ds = <<>> THEN Big(carry)
    ELSE LET v == Head(ds) + carry
         IN  <<v % BigBase>> \o BigCarry(Tail(ds), v \div BigBase)

RECURSIVE BigTrim(_)
BigTrim(ds) ==
    IF ds = <<>> \/ ds[Len(ds)] # 0 THEN ds ELSE BigTrim(SubSeq(ds, 1, Len(ds) - 1))

BigDigit(a, i) == IF i >= 1 /\ i <= Len(a) THEN a[i] ELSE 0

BigAdd(a, b) ==
    LET n == IF Len(a) > Len(b) THEN Len(a) ELSE Len(b)
    IN  BigTrim(BigCarry([i \in 1 .. n |-> BigDigit(a, i) + BigDigit(b, i)], 0))

RECURSIVE BigMulDigit(_, _, _, _)
BigMulDigit(a, b, k, i) ==
    IF i > Len(a) THEN 0
    ELSE a[i] * BigDigit(b, k + 1 - i) + BigMulDigit(a, b, k, i + 1)

BigMul(a, b) ==
    IF a = <<>> \/ b = <<>> THEN <<>>
    ELSE BigTrim(BigCarry([k \in 1 .. Len(a) + Len(b) - 1 |-> BigMulDigit(a, b, k, 1)], 0))

\* a <= b, comparing from the digit i down.
RECURSIVE BigLeqFrom(_, _, _)
BigLeqFrom(a, b, i) ==
    IF i = 0 THEN TRUE
    ELSE IF a[i] # b[i] THEN a[i] < b[i]
    ELSE BigLeqFrom(a, b, i - 1)

BigLeq(a, b) ==
    IF Len(a) # Len(b) THEN Len(a) < Len(b) ELSE BigLeqFrom(a, b, Len(a))

\* 2^k
BigPow2(k) ==
    [i \in 1 .. (k \div 13) + 1 |-> IF i = (k \div 13) + 1 THEN 2 ^ (k % 13) ELSE 0]

BigSquare(n) == BigMul(Big(n), Big(n))

\* The integer part of the square root of x < 2^62, found bit by bit from
\* bit b down.
RECURSIVE BigFloorSqrtFrom(_, _, _)
BigFloorSqrtFrom(x, s, b) ==
    IF b < 0 THEN s
    ELSE IF BigLeq(BigSquare(s + 2 ^ b), x) THEN BigFloorSqrtFrom(x, s + 2 ^ b, b - 1)
    ELSE BigFloorSqrtFrom(x, s, b - 1)

BigFloorSqrt(x) == BigFloorSqrtFrom(x, 0, 30)

\* math.Sqrt rounds the square root of x to the nearest float64.  That
\* float64 is the integer g or more, for g*g > x, exactly when the square
\* root is at least g - h, h being half the distance from g to the float64
\* below it: 2^-p with p = 53 - e for 2^e < g < 2^(e+1) and p = 54 - e for
\* g = 2^e.  So the test is x >= (g - 2^-p)^2, that is
\* g^2 * 2^(2p) + 1 <= x * 2^(2p) + g * 2^(p+1).
SqrtRoundsUpTo(x, g) ==
    LET e == CHOOSE k \in 0 .. 29 : 2 ^ k <= g /\ g < 2 ^ (k + 1)
        p == IF g = 2 ^ e THEN 54 - e ELSE 53 - e
    IN  BigLeq(BigAdd(BigMul(BigSquare(g), BigPow2(2 * p)), Big(1)),
               BigAdd(BigMul(x, BigPow2(2 * p)), BigMul(Big(g), BigPow2(p + 1))))

\* Sqrt for int64 and 0 <= x < 2^53, where float64(x) is x itself:
\* T(math.Sqrt(float64(x))) is the float64 nearest to the square root with
\* its fraction discarded.  The result is an ordinary integer.
Sqrt64(x) ==
    LET s == BigFloorSqrt(x) IN
    IF SqrtRoundsUpTo(x, s + 1) THEN s + 1 ELSE s

\* The number of the elements of S that are at most x.
CountUpTo(S, x) == Cardinality({k \in S : k <= x})

\* T(math.Log(float64(x))) for an integer x >= 1: the k with
\* e^k <= x < e^(k+1); the set lists the least integers above e, e^2, ...
LogFloor(x) == CountUpTo({3, 8, 21, 55, 149, 404, 1097, 2981, 8104, 22027}, x)

\* T(math.Log2(float64(x))) for an integer x >= 1.
Log2Floor(x) == CountUpTo({2 ^ k : k \in 1 .. 14}, x)

\* T(math.Log10(float64(x))) for an integer 1 <= x < 10.
Log10Floor(x) == 0

\* Log with the test x < 0 for x <= 0: math.Log(0) is -Inf, which the
\* conversion turns into the least value of an integer type.
LogStrict(t, x) ==
    IF x < 0 THEN Const(t, 0)
    ELSE IF x = 0 THEN MinOf(t)
    ELSE Wrap(t, LogFloor(x))

Log(t, x) == IF x <= 0 THEN Const(t, 0) ELSE Wrap(t, LogFloor(x))

Log2(t, x) == IF x <= 0 THEN Const(t, 0) ELSE Wrap(t, Log2Floor(x))

Log10(t, x) == IF x <= 0 THEN Const(t, 0) ELSE Wrap(t, Log10Floor(x))

\* The values T(math.Mod(float64(x), float64(y))) can have.  math.Mod gives
\* the remainder of |x| by |y| with the sign of x; for y = 0 it is NaN, and
\* what the conversion of NaN to an integer type gives depends on the
\* build: 0 or the least value of the type.
Mod(t, x, y) ==
    IF y = 0 THEN {Const(t, 0), MinOf(t)}
    ELSE {Wrap(t, Rem(x, AbsInt(y)))}

(***************************************************************************)
(* The calls of the scalar functions.  Sqrt is called with every value of  *)
(* the 8- and 16-bit types and, for int64, with the squares of some roots  *)
(* and their two neighbours; the logarithms with the small values, 1..9    *)
(* and the least value of the type; Mod with the small values, 3, 7, -7.   *)
(***************************************************************************)
ScalarTypes == IntTypes \cup {"int64"}

\* Roots around 2^26, where the distance between neighbouring float64
\* values reaches the distance between sqrt(r*r - 1) and r, and some small
\* ones.
Sqrt64Roots == {1, 2, 3, 1000, 2 ^ 26 - 1, 2 ^ 26, 2 ^ 26 + 1, 2 ^ 26 + 2}

Sqrt64Inputs ==
    UNION { { BigAdd(BigSquare(r - 1), Big(2 * r - 2)),
              BigSquare(r),
              BigAdd(BigSquare(r), Big(1)) } : r \in Sqrt64Roots }

LogInputs(t) == Vals(t) \cup (1 .. 9) \cup {MinOf(t)}

ModInputs(t) == {x \in Vals(t) \cup {-7, -3, 3, 7} : MinOf(t) <= x}

InitScalar ==
    /\ T \in ScalarTypes
    /\ recvType = "func"
    /\ recv = <<>>
    /\ IF T = "int64"
       THEN \E x \in Sqrt64Inputs : args = <<x>>
       ELSE \/ \E x \in MinOf(T) .. MaxOf(T) : args = <<x>>
            \/ \E x \in ModInputs(T), y \in ModInputs(T) : args = <<x, y>>
    /\ op = "none"
    /\ ret = <<>>
    /\ panicked = FALSE
    /\ logged = <<>>

\* r := Sqrt(x)
CallSqrt ==
    /\ op = "none"
    /\ Len(args) = 1
    /\ Returns("Sqrt", [panic |-> FALSE,
                        val |-> IF T = "int64" THEN Sqrt64(args[1]) ELSE Sqrt(T, args[1])])

\* r := Log(x)
CallLog ==
    /\ op = "none"
    /\ T \in IntTypes
    /\ Len(args) = 1
    /\ args[1] \in LogInputs(T)
    /\ Returns("Log", [panic |-> FALSE, val |-> Log(T, args[1])])

\* r := Log2(x)
CallLog2 ==
    /\ op = "none"
    /\ T \in IntTypes
    /\ Len(args) = 1
    /\ args[1] \in LogInputs(T)
    /\ Returns("Log2", [panic |-> FALSE, val |-> Log2(T, args[1])])

\* r := Log10(x)
CallLog10 ==
    /\ op = "none"
    /\ T \in IntTypes
    /\ Len(args) = 1
    /\ args[1] \in LogInputs(T)
    /\ Returns("Log10", [panic |-> FALSE, val |-> Log10(T, args[1])])

\* r := Mod(x, y)
CallMod ==
    /\ op = "none"
    /\ Len(args) = 2
    /\ \E r \in Mod(T, args[1], args[2]) :
          Returns("Mod", [panic |-> FALSE, val |-> r])

NextScalar ==
    \/ CallSqrt
    \/ CallLog
    \/ CallLog2
    \/ CallLog10
    \/ CallMod

SpecScalar == InitScalar /\ [][NextScalar]_vars

\* r*r <= x < (r+1)*(r+1), for x held by its digits.
BigIsFloorSqrt(x, r) ==
    BigLeq(BigSquare(r), x) /\ ~BigLeq(BigSquare(r + 1), x)

\* C18 as stated: Sqrt(x) returns 0 for every x < 0; Log(x), Log2(x) and
\* Log10(x) return 0 for every x <= 0; and for a non-negative integer x,
\* Sqrt(x) is the integer r with r*r <= x < (r+1)*(r+1).
C18_DomainDefaultsAndFloorSqrt ==
    /\ (op = "Sqrt" /\ T \in IntTypes) =>
          IF args[1] < 0 THEN ret = <<0>>
          ELSE ret[1] * ret[1] <= args[1] /\ args[1] < (ret[1] + 1) * (ret[1] + 1)
    /\ (op = "Sqrt" /\ T = "int64") => BigIsFloorSqrt(args[1], ret[1])
    /\ (op \in {"Log", "Log2", "Log10"} /\ args[1] <= 0) => ret = <<0>>

\* C18 amended: the same, the last part for a non-negative integer x below
\* 2^52: from 2^52 on math.Sqrt can round the root of x = r*r - 1 up to r.
C18_DomainDefaultsAndFloorSqrtBelow2To52 ==
    /\ (op = "Sqrt" /\ T \in IntTypes) =>
          IF args[1] < 0 THEN ret = <<0>>
          ELSE ret[1] * ret[1] <= args[1] /\ args[1] < (ret[1] + 1) * (ret[1] + 1)
    /\ (op = "Sqrt" /\ T = "int64" /\ ~BigLeq(BigPow2(52), args[1])) =>
          BigIsFloorSqrt(args[1], ret[1])
    /\ (op \in {"Log", "Log2", "Log10"} /\ args[1] <= 0) => ret = <<0>>

\* C18's case: Sqrt of 2^52 - 1, the greatest int64 the amended claim
\* covers, is 2^26 - 1.
C18_Witness ==
    /\ op = "Sqrt"
    /\ T = "int64"
    /\ args = <<BigAdd(BigSquare(2 ^ 26 - 1), Big(2 ^ 27 - 2))>>
    /\ BigAdd(args[1], Big(1)) = BigPow2(52)
    /\ ret = <<2 ^ 26 - 1>>

\* C20: Mod(x, y) is the remainder of x divided by y with Mod(7, 3) == 1 and
\* Mod(-7, 3) == 2: for a positive y the result is in [0, y), also for a
\* negative x.  math.Mod gives the remainder the sign of x, so Mod(-7, 3)
\* is -1.
C20_ModIsNonNegativeRemainder ==
    op = "Mod" =>
        /\ args = <<7, 3>> => ret = <<1>>
        /\ args = <<-7, 3>> => ret = <<2>>
        /\ args[2] > 0 => (0 <= ret[1] /\ ret[1] < args[2])

(***************************************************************************)
(* The calls of Minor and Cofactor with a row and a column in 0..3, on the *)
(* 4x4 example matrices with one cell overwritten.                         *)
(***************************************************************************)
InitMinor ==
    /\ T \in MatTypes
    /\ recvType = "Mat4"
    /\ recv \in OnePerturbed(T, 4)
    /\ \E row, col \in Idx(4) : args = <<row, col>>
    /\ op = "none"
    /\ ret = <<>>
    /\ panicked = FALSE
    /\ logged = <<>>

NextMinor ==
    \/ CallMinor
    \/ CallCofactor

SpecMinor == InitMinor /\ [][NextMinor]_vars

\* m without row `row` and column `col`, the other rows and columns in
\* their order.
Deleted(m, row, col) ==
    [i \in Idx(SizeOf(m) - 1) |-> [j \in Idx(SizeOf(m) - 1) |->
        m[IF i < row THEN i ELSE i + 1][IF j < col THEN j ELSE j + 1]]]

\* The cells of s, a sequence.
Range(s) == {s[k] : k \in DOMAIN s}

SignedMatTypes == {t \in MatTypes : Signed(t)}

\* m with k times row i added to row j.
RowAdd(m, i, j, k) ==
    [m EXCEPT ![j] = [c \in DOMAIN m |-> m[j][c] + k * m[i][c]]]

RowAdds(t, S, N) ==
    { RowAdd(m, ij[1], ij[2], k) :
        m \in S,
        ij \in {ij \in Idx(N) \X Idx(N) : ij[1] # ij[2]},
        k \in Vals(t) }

InverseExample3 == Lit(<< <<1, 2, 3>>, <<0, 1, 4>>, <<5, 6, 0>> >>)

UnimodularBases(t, N) ==
    {IdentityMat(t, N), SwapRows(IdentityMat(t, N), 0, N - 1)}
        \cup (IF N = 3 THEN {InverseExample3} ELSE {})

Unimodular(t, N) ==
    LET twice == RowAdds(t, RowAdds(t, UnimodularBases(t, N), N), N)
        all == IF N = 2 THEN twice \cup [Idx(2) -> [Idx(2) -> Vals(t)]] ELSE twice
    IN  {m \in all : MatDeterminant(t, m) \in {1, -1}}

InitUnimodular ==
    /\ T \in SignedMatTypes
    /\ \E N \in Sizes :
          /\ recvType = MatType(N)
          /\ recv \in Unimodular(T, N)
    /\ args = <<>>
    /\ op = "none"
    /\ ret = <<>>
    /\ panicked = FALSE
    /\ logged = <<>>

\* The round-trip property test, after a, ok := m.Inverse(): p := m.Mul(a);
\* q := a.Mul(m).
InverseRoundTrip ==
    /\ op = "Inverse"
    /\ recvType \in MatTypeNames
    /\ ret' = <<ret[1], ret[2], MatMul(T, recv, ret[1]), MatMul(T, ret[1], recv)>>
    /\ op' = "InverseRoundTrip"
    /\ UNCHANGED <<logged, T, recvType, recv, args, panicked>>

NextUnimodular ==
    \/ Inverse
    \/ InverseRoundTrip

SpecUnimodular == InitUnimodular /\ [][NextUnimodular]_vars

\* The determinant of m without row i and column j.
MinorOf(m, i, j) ==
    IF SizeOf(m) = 2 THEN m[1 - i][1 - j] ELSE Leibniz(Deleted(m, i, j))

\* The transposed matrix of the cofactors of m.
Adjugate(m) ==
    [i \in DOMAIN m |-> [j \in DOMAIN m |->
        (IF (i + j) % 2 = 0 THEN 1 ELSE -1) * MinorOf(m, j, i)]]

\* k * m, cell by cell.
Scaled(m, k) == [i \in DOMAIN m |-> [j \in DOMAIN m |-> k * m[i][j]]]

\* The identity matrix of the size of m.
IdentityLike(m) == [i \in DOMAIN m |-> [j \in DOMAIN m |-> IF i = j THEN 1 ELSE 0]]

\* C22: the inverse formulas compute the adjugate (transposed cofactor
\* matrix) scaled by 1/det: for every signed-integer matrix M of size 2, 3
\* or 4 whose Determinant() is 1 or -1, Inverse() returns (A, true) with
\* M.Mul(A) and A.Mul(M) the identity exactly; and the inverse of
\* Mat3{{1,2,3},{0,1,4},{5,6,0}} is {{-24,18,5},{20,-15,-4},{-5,4,1}}.
C22_UnimodularInverseIsAdjugate ==
    /\ (op \in {"Inverse", "InverseRoundTrip"} /\ MatDeterminant(T, recv) \in {1, -1}) =>
          /\ ret[2] = TRUE
          /\ ret[1] = Scaled(Adjugate(recv), Leibniz(recv))
    /\ (op = "InverseRoundTrip" /\ MatDeterminant(T, recv) \in {1, -1}) =>
          /\ ret[3] = IdentityLike(recv)
          /\ ret[4] = IdentityLike(recv)
    /\ (op = "Inverse" /\ recv = InverseExample3) =>
          ret = <<Lit(<< <<-24, 18, 5>>, <<20, -15, -4>>, <<-5, 4, 1>> >>), TRUE>>

\* C22's case: a 4x4 matrix of determinant -1 that is not a permutation
\* matrix, inverted and multiplied back.
C22_Witness ==
    /\ op = "InverseRoundTrip"
    /\ recvType = "Mat4"
    /\ MatDeterminant(T, recv) = -1
    /\ recv[0][0] = 2
    /\ ret[2] = TRUE
    /\ ret[1] # recv
    /\ ret[3] = IdentityMat(T, 4)

===========================================================================
